---- MODULE Spec2Model ----
(***************************************************************************)
(* Model of the Ubiflow floor-plan designer (React component state and its *)
(* event handlers).  The component with the undo/redo history              *)
(* (src/unnamed/part_000) is the specification Spec; the variant with      *)
(* delete-selected (src/components/FloorPlanDesigner.tsx, first component) *)
(* is SpecFPD.  One action per event handler; the handler's closure reads  *)
(* the unprimed state and all its setState calls form the primed state.    *)
(***************************************************************************)
EXTENDS Integers, Sequences, FiniteSets, TLC

\* ------------------------------------------------------------------ bounds
\* Spec: the editor with history.
MaxItems == 2
MaxConnections == 1
MaxHistory == 4
MaxClock == 3
\* SpecCad: the connect gesture across the stage's mouse handlers.
CadMaxItems == 2
CadMaxConnections == 1
CadMaxDrawables == 1
CadMaxHistory == 4
CadMaxClock == 4
\* SpecFPD: the designer without history.
FpdMaxItems == 2
FpdMaxConnections == 2
FpdMaxDrawables == 1
FpdMaxClock == 4
\* SpecCap: items placed on the empty canvas and dragged until the history is full.
CapMaxClock == 1
\* SpecBend: two items, one pipe, its bend handle dragged over at most two
\* move events per gesture.
BendMaxItems == 2
BendMaxConnections == 1
BendMaxHistory == 5
BendMaxClock == 3
BendMaxMoves == 2
\* SpecRotate: one placement and five rotations.
RotMaxHistory == 7
\* SpecFrame: one recorded operation after the five of the initial state.
FrameMaxHistory == 6
\* SpecHistory: recorded operations, undo and redo under the observer.
HistMaxItems == 2
HistMaxHistory == 4
HistMaxClock == 3
\* SpecConnect: placing and connecting only.
ConnectMaxItems == 3
ConnectMaxConnections == 2
ConnectMaxClock == 5

\* ------------------------------------------------------- program constants
HistoryCap == 20
gridSize == 50
StageWidth == 800
StageHeight == 600
null == 0

BED_ICON_URL == "https://cdn-icons-png.flaticon.com/512/2317/2317981.png"
SOURCE_ICON_URL == "https://cdn-icons-png.flaticon.com/512/9368/9368210.png"

ItemTypes == {"Bed", "Source"}
GAS_LAYERS == {"O2", "MA4", "VAC"}
LAYER_OFFSETS_NONE == [l \in GAS_LAYERS |-> 0]

LAYER_OFFSETS == [l \in GAS_LAYERS |-> CASE l = "O2" -> 0 [] l = "MA4" -> -25 [] l = "VAC" -> 25]

\* Inputs of the environment: where a drag can end, where the pointer can be.
DragPoints == {<<0, 0>>, <<300, 0>>}
CapDragPoints == {<<300, 0>>}
BendXs == {400, 450}
FrameXs == {450}
\* Where the two ends of the measured pipe can be, how far its bend handle
\* was dragged, and the pixelsPerMeter a loaded project can carry.
EndXs == {0, 100, 300}
EndYs == {0, 50}
BendOffsets == {0, 50}
Scales == {50, 30}
PointerPoints == {<<120, 40>>}
PromptTexts == {"", "T"}

VARIABLES
    history, historyStep,
    items, connections, drawables, dxfEntities,
    activeLayer, editMode, cadTool, snapGrid,
    selectedIds, selectedConnectionId, drawPipeMode, selectedStartId,
    tempDrawable, isDrawing, isPanning, contextMenu,
    now, keyDown,
    lastEvent, trail, undone, redone,
    pixelsPerMeter, pipeLen, gesture,
    totalLen,
    bedCount,
    imageSrc,
    dxfScale,
    savedFile,
    stageScale,
    stagePos,
    wheelCount,
    roomType,
    beds

docVars == <<items, connections, drawables, dxfEntities>>
histVars == <<history, historyStep>>
toolVars == <<activeLayer, editMode, cadTool, snapGrid, isPanning>>
selVars == <<selectedIds, selectedConnectionId>>
pipeVars == <<drawPipeMode, selectedStartId>>
drawVars == <<tempDrawable, isDrawing>>
ghostVars == <<trail, undone, redone>>
measureVars == <<pixelsPerMeter, pipeLen, totalLen>>
fileVars == <<imageSrc, dxfScale, savedFile>>
viewVars == <<stageScale, stagePos, wheelCount>>
calcVars == <<roomType, beds>>
restVars == <<measureVars, fileVars, viewVars, calcVars>>
outVars == <<restVars, bedCount>>
otherVars == <<keyDown, outVars, gesture>>
vars == <<history, historyStep, items, connections, drawables, dxfEntities,
          activeLayer, editMode, cadTool, snapGrid, selectedIds,
          selectedConnectionId, drawPipeMode, selectedStartId, tempDrawable,
          isDrawing, isPanning, contextMenu, now, keyDown, lastEvent, trail,
          undone, redone, pixelsPerMeter, pipeLen, gesture,
          totalLen,
          bedCount,
          imageSrc,
          dxfScale,
          savedFile,
          stageScale,
          stagePos,
          wheelCount,
          roomType,
          beds>>

\* ----------------------------------------------------------------- helpers
\* Array.prototype.filter keeps the elements passing the test, in order.
filter(s, Keep(_)) == SelectSeq(s, Keep)

map(s, F(_)) == [i \in 1..Len(s) |-> F(s[i])]

\* Array.prototype.find: the first element satisfying the test, or undefined.
findIndex(s, Test(_)) ==
    IF \E i \in 1..Len(s) : Test(s[i])
    THEN CHOOSE i \in 1..Len(s) : Test(s[i]) /\ \A j \in 1..(i - 1) : ~Test(s[j])
    ELSE 0

Min(a, b) == IF a < b THEN a ELSE b

\* The four collections a snapshot holds.
Snapshot(its, conns, drws, dxf) ==
    [items |-> its, connections |-> conns, drawables |-> drws, dxfEntities |-> dxf]

Doc == Snapshot(items, connections, drawables, dxfEntities)

EmptyDoc == Snapshot(<<>>, <<>>, <<>>, <<>>)

NoMenu == [visible |-> FALSE, type |-> "NONE", id |-> null]
\* No drag of a bend handle is running.
NoGesture == [active |-> FALSE, doc |-> EmptyDoc, step |-> 0, moves |-> 0]

NoDrawable == [id |-> null, type |-> "NONE"]

\* A JavaScript number as far as the import scale needs it: sign * num / den,
\* with den = 0 for an infinity and sign = -1, num = 0 for negative zero.
Num(sign, num, den) == [sign |-> sign, num |-> num, den |-> den]

Infinity == Num(1, 1, 0)

\* 0 / 0.
NaN == Num(1, 0, 0)

\* No project file was downloaded yet.
NoFile == [version |-> 0, imageSrc |-> null, dxfEntities |-> <<>>, drawables |-> <<>>,
           items |-> <<>>, connections |-> <<>>, pixelsPerMeter |-> 0,
           dxfScale |-> Num(1, 0, 1)]

\* The event the component handled last: the handler, the id it was called
\* with, the pending start item its closure saw, and whether it raised the
\* validation alert.
Event(op, id, start, alert) == [op |-> op, id |-> id, start |-> start, alert |-> alert]

\* ------------------------------------------------------------ history
\* saveToHistory: history.slice(0, historyStep + 1), push, shift beyond the cap.
newHistoryKeepsFuture == Append(history, Doc)

newHistory == Append(SubSeq(history, 1, Min(historyStep + 1, Len(history))), Doc)

saveToHistoryNoEvict ==
    /\ history' = newHistory
    /\ historyStep' = Len(history') - 1

saveToHistory ==
    /\ history' = IF Len(newHistory) > HistoryCap THEN Tail(newHistory) ELSE newHistory
    /\ historyStep' = Len(history') - 1

\* Bounds of a specification: the clock value a creation may still read and
\* the number of snapshots the stack may still take.
canCreate(maxClock) == now < maxClock
canRecord(maxHistory) == Len(newHistory) <= maxHistory

Init ==
    /\ history = <<EmptyDoc>>
    /\ historyStep = 0
    /\ items = <<>>
    /\ connections = <<>>
    /\ drawables = <<>>
    /\ dxfEntities = <<>>
    /\ activeLayer = "O2"
    /\ editMode = "PIPE"
    /\ cadTool = "NONE"
    /\ snapGrid = TRUE
    /\ selectedIds = <<>>
    /\ selectedConnectionId = null
    /\ drawPipeMode = FALSE
    /\ selectedStartId = null
    /\ tempDrawable = NoDrawable
    /\ isDrawing = FALSE
    /\ isPanning = FALSE
    /\ contextMenu = NoMenu
    /\ now = 0
    /\ keyDown = [drawables |-> <<>>, items |-> <<>>, connections |-> <<>>,
                  selectedIds |-> <<>>]
    /\ lastEvent = Event("mount", null, null, FALSE)
    /\ trail = <<EmptyDoc>>
    /\ undone = 0
    /\ redone = 0
    /\ pixelsPerMeter = 50
    /\ pipeLen = <<>>
    /\ gesture = NoGesture
    /\ beds = NaN
    /\ roomType = "ward_single_4bed"
    /\ wheelCount = 0
    /\ stagePos = [x |-> Num(1, 0, 1), y |-> Num(1, 0, 1)]
    /\ stageScale = Num(1, 1, 1)
    /\ savedFile = NoFile
    /\ dxfScale = Num(1, 1, 1)
    /\ imageSrc = null
    /\ totalLen = [l \in GAS_LAYERS |-> <<>>]
    /\ bedCount = 0

\* ------------------------------------------------------------ undo / redo
handleUndo ==
    /\ lastEvent' = Event("handleUndo", null, null, FALSE)
    /\ IF historyStep = 0
       THEN UNCHANGED <<docVars, histVars>>
       ELSE LET snapshot == history[(historyStep - 1) + 1] IN
            /\ items' = snapshot.items
            /\ connections' = snapshot.connections
            /\ drawables' = snapshot.drawables
            /\ dxfEntities' = snapshot.dxfEntities
            /\ historyStep' = historyStep - 1
            /\ UNCHANGED history
    /\ UNCHANGED <<toolVars, selVars, pipeVars, drawVars, contextMenu, now>>

handleRedoClamped ==
    /\ lastEvent' = Event("handleRedo", null, null, FALSE)
    /\ IF history = <<>>
       THEN UNCHANGED <<docVars, histVars>>
       ELSE LET nextStep == Min(historyStep + 1, Len(history) - 1)
                snapshot == history[nextStep + 1] IN
            /\ items' = snapshot.items
            /\ connections' = snapshot.connections
            /\ drawables' = snapshot.drawables
            /\ dxfEntities' = snapshot.dxfEntities
            /\ historyStep' = nextStep
            /\ UNCHANGED history
    /\ UNCHANGED <<toolVars, selVars, pipeVars, drawVars, contextMenu, now>>

handleRedo ==
    /\ lastEvent' = Event("handleRedo", null, null, FALSE)
    /\ IF historyStep >= Len(history) - 1
       THEN UNCHANGED <<docVars, histVars>>
       ELSE LET snapshot == history[(historyStep + 1) + 1] IN
            /\ items' = snapshot.items
            /\ connections' = snapshot.connections
            /\ drawables' = snapshot.drawables
            /\ dxfEntities' = snapshot.dxfEntities
            /\ historyStep' = historyStep + 1
            /\ UNCHANGED history
    /\ UNCHANGED <<toolVars, selVars, pipeVars, drawVars, contextMenu, now>>

\* ------------------------------------------------------------ items
centerX == (-0 + StageWidth \div 2) \div 1
centerY == (-0 + StageHeight \div 2) \div 1

\* t: what Date.now() returns; a creation reads the clock later than the last one.
addItem(type, t) ==
    /\ saveToHistory
    /\ LET iconUrl == IF type = "Bed" THEN BED_ICON_URL ELSE SOURCE_ICON_URL
           newItem == [id |-> t, x |-> centerX, y |-> centerY, type |-> type,
                       label |-> type, iconUrl |-> iconUrl, rotation |-> 0]
       IN items' = Append(items, newItem)
    /\ now' = t
    /\ lastEvent' = Event("addItem", null, null, FALSE)
    /\ bedCount' = IF type = "Bed"
                   THEN Len(filter(items, LAMBDA i : i.type # "Source")) + 1
                   ELSE bedCount
    /\ UNCHANGED <<connections, drawables, dxfEntities, toolVars, selVars,
                   pipeVars, drawVars, contextMenu>>

\* ------------------------------------------------------------ validation
\* items.find(i => i.id === id): the first item with the id, or NoItem.
NoItem == [id |-> null, type |-> "undefined"]

findItem(its, id) ==
    LET k == findIndex(its, LAMBDA i : i.id = id) IN IF k = 0 THEN NoItem ELSE its[k]

validateConnection(its, conns, startId, endId, layer) ==
    LET startItem == findItem(its, startId)
        endItem == findItem(its, endId)
        target == IF startItem.type = "Source" THEN startItem
                  ELSE IF endItem.type = "Source" THEN endItem ELSE NoItem
        k == findIndex(conns, LAMBDA c : c.start = target.id \/ c.end = target.id)
    IN IF target # NoItem /\ k # 0 /\ conns[k].layer # layer THEN FALSE ELSE TRUE

\* ------------------------------------------------------------ connect gesture
newConnectionSwapped(t, startId, endId, layer) ==
    [id |-> t, start |-> endId, end |-> startId, bendOffset |-> 0, layer |-> layer]

newConnectionLoop(t, startId, endId, layer) ==
    [id |-> t, start |-> startId, end |-> startId, bendOffset |-> 0, layer |-> layer]

\* The object handleItemClick appends to connections.
newConnection(t, startId, endId, layer) ==
    [id |-> t, start |-> startId, end |-> endId, bendOffset |-> 0, layer |-> layer]

pendingAfterSameClickCancels(id) == null

\* The pending start item after a click on the item that is already pending:
\* neither branch of the handler is taken.
pendingAfterSameClick(id) == selectedStartId

rejectedClickSavesFirst ==
    /\ selectedStartId' = null
    /\ saveToHistory
    /\ UNCHANGED docVars

\* What the handler does when validateConnection returns false.
rejectedClick ==
    /\ selectedStartId' = null
    /\ UNCHANGED <<docVars, histVars>>

\* Item onClick in PIPE mode.  t: what Date.now() returns.
handleItemClick(id, t) ==
    /\ editMode = "PIPE"
    /\ LET approved == validateConnection(items, connections, selectedStartId, id, activeLayer)
           second == drawPipeMode /\ selectedStartId # null /\ selectedStartId # id
       IN
       /\ lastEvent' = Event("handleItemClick", id, selectedStartId, second /\ ~approved)
       /\ IF ~drawPipeMode THEN
              UNCHANGED <<docVars, histVars, selectedStartId>>
          ELSE IF selectedStartId = null THEN
              /\ selectedStartId' = id
              /\ UNCHANGED <<docVars, histVars>>
          ELSE IF selectedStartId # id THEN
              IF approved
              THEN /\ saveToHistory
                   /\ connections' = Append(connections,
                          newConnection(t, selectedStartId, id, activeLayer))
                   /\ selectedStartId' = null
                   /\ UNCHANGED <<items, drawables, dxfEntities>>
              ELSE rejectedClick
          ELSE
              /\ selectedStartId' = pendingAfterSameClick(id)
              /\ UNCHANGED <<docVars, histVars>>
       /\ now' = IF second /\ approved THEN t ELSE now
    /\ UNCHANGED <<toolVars, selVars, drawPipeMode, drawVars, contextMenu>>

itemSelect(id) ==
    /\ editMode # "PIPE"
    /\ selectedIds' = <<id>>
    /\ lastEvent' = Event("itemSelect", null, null, FALSE)
    /\ UNCHANGED <<docVars, histVars, toolVars, selectedConnectionId, pipeVars,
                   drawVars, contextMenu, now>>

\* The Draw Pipe button.
toggleDrawPipeMode ==
    /\ editMode = "PIPE"
    /\ drawPipeMode' = ~drawPipeMode
    /\ selectedStartId' = null
    /\ lastEvent' = Event("toggleDrawPipeMode", null, null, FALSE)
    /\ UNCHANGED <<docVars, histVars, toolVars, selVars, drawVars, contextMenu,
                   now>>

\* The layer select.
setActiveLayer(layer) ==
    /\ editMode = "PIPE"
    /\ layer # activeLayer
    /\ activeLayer' = layer
    /\ lastEvent' = Event("setActiveLayer", null, null, FALSE)
    /\ UNCHANGED <<docVars, histVars, editMode, cadTool, snapGrid, isPanning,
                   selVars, pipeVars, drawVars, contextMenu, now>>

ItemIds == {items[i].id : i \in 1..Len(items)}

\* A connection is drawn (and can be clicked) only when both endpoints are found.
rendered(c) == findItem(items, c.start) # NoItem /\ findItem(items, c.end) # NoItem

PipeIds == {connections[i].id : i \in {j \in 1..Len(connections) : rendered(connections[j])}}
\* ------------------------------------------------------------ context menu
handleContextMenu(type, id) ==
    /\ contextMenu' = [visible |-> TRUE, type |-> type, id |-> id]
    /\ lastEvent' = Event("handleContextMenu", null, null, FALSE)
    /\ UNCHANGED <<docVars, histVars, toolVars, selVars, pipeVars, drawVars,
                   now>>

\* (e.rotation || 0): a missing rotation counts as 0.
rotationOf(e) == IF "rotation" \in DOMAIN e THEN e.rotation ELSE 0

handleMenuActionOnSelection(action) ==
    LET target == IF selectedConnectionId # null THEN selectedConnectionId
                  ELSE IF selectedIds # <<>> THEN selectedIds[1] ELSE contextMenu.id
    IN
    /\ contextMenu # NoMenu
    /\ saveToHistory
    /\ IF action = "DELETE" /\ contextMenu.type = "ITEM" THEN
           /\ items' = filter(items, LAMBDA i : i.id # target)
           /\ connections' = filter(connections,
                  LAMBDA c : c.start # target /\ c.end # target)
           /\ UNCHANGED drawables
       ELSE IF action = "DELETE" /\ contextMenu.type = "PIPE" THEN
           /\ connections' = filter(connections, LAMBDA c : c.id # target)
           /\ UNCHANGED <<items, drawables>>
       ELSE IF action = "DELETE" /\ contextMenu.type = "CAD" THEN
           /\ drawables' = filter(drawables, LAMBDA d : d.id # target)
           /\ UNCHANGED <<items, connections>>
       ELSE IF action = "ROTATE" /\ contextMenu.type = "ITEM" THEN
           /\ items' = map(items, LAMBDA i :
                  IF i.id = target
                  THEN [rotation |-> rotationOf(i) + 90] @@ i ELSE i)
           /\ UNCHANGED <<connections, drawables>>
       ELSE IF action = "ROTATE" /\ contextMenu.type = "CAD" THEN
           /\ drawables' = map(drawables, LAMBDA d :
                  IF d.id = target
                  THEN [rotation |-> rotationOf(d) + 90] @@ d ELSE d)
           /\ UNCHANGED <<items, connections>>
       ELSE UNCHANGED <<items, connections, drawables>>
    /\ contextMenu' = NoMenu
    /\ lastEvent' = Event("handleMenuAction:" \o action, null, null, FALSE)
    /\ UNCHANGED <<dxfEntities, toolVars, selVars, pipeVars, drawVars, now>>

handleMenuAction(action) ==
    /\ contextMenu # NoMenu
    /\ saveToHistory
    /\ IF action = "DELETE" /\ contextMenu.type = "ITEM" THEN
           /\ items' = filter(items, LAMBDA i : i.id # contextMenu.id)
           /\ connections' = filter(connections,
                  LAMBDA c : c.start # contextMenu.id /\ c.end # contextMenu.id)
           /\ UNCHANGED drawables
       ELSE IF action = "DELETE" /\ contextMenu.type = "PIPE" THEN
           /\ connections' = filter(connections, LAMBDA c : c.id # contextMenu.id)
           /\ UNCHANGED <<items, drawables>>
       ELSE IF action = "DELETE" /\ contextMenu.type = "CAD" THEN
           /\ drawables' = filter(drawables, LAMBDA d : d.id # contextMenu.id)
           /\ UNCHANGED <<items, connections>>
       ELSE IF action = "ROTATE" /\ contextMenu.type = "ITEM" THEN
           /\ items' = map(items, LAMBDA i :
                  IF i.id = contextMenu.id
                  THEN [rotation |-> rotationOf(i) + 90] @@ i ELSE i)
           /\ UNCHANGED <<connections, drawables>>
       ELSE IF action = "ROTATE" /\ contextMenu.type = "CAD" THEN
           /\ drawables' = map(drawables, LAMBDA d :
                  IF d.id = contextMenu.id
                  THEN [rotation |-> rotationOf(d) + 90] @@ d ELSE d)
           /\ UNCHANGED <<items, connections>>
       ELSE UNCHANGED <<items, connections, drawables>>
    /\ contextMenu' = NoMenu
    /\ lastEvent' = Event("handleMenuAction:" \o action, null, null, FALSE)
    /\ UNCHANGED <<dxfEntities, toolVars, selVars, pipeVars, drawVars, now>>

\* The menu's Cancel button.
cancelMenu ==
    /\ contextMenu # NoMenu
    /\ contextMenu' = NoMenu
    /\ lastEvent' = Event("cancelMenu", null, null, FALSE)
    /\ UNCHANGED <<docVars, histVars, toolVars, selVars, pipeVars, drawVars,
                   now>>

\* ------------------------------------------------------------ drawing tools
\* Math.round(v / 50) * 50 on integers: halves round up.
round50(v) == ((2 * v + gridSize) \div (2 * gridSize)) * gridSize

snapped(v) == IF snapGrid THEN round50(v) ELSE v

\* Whether a mouse-down starts a drawing (the early return is not taken).
draws == ~(isPanning \/ editMode # "CAD" \/ cadTool = "NONE")

clearSelectionAndPending(onStage) ==
    /\ selectedConnectionId' = IF onStage THEN null ELSE selectedConnectionId
    /\ selectedIds' = IF onStage /\ cadTool = "NONE" THEN <<>> ELSE selectedIds
    /\ selectedStartId' = IF onStage THEN null ELSE selectedStartId
    /\ UNCHANGED drawPipeMode

\* What a mouse-down does to the selections and to the connect gesture: on the
\* empty canvas it clears the selected pipe and, with the select tool, the
\* selected ids; it never touches the pending start item.
clearSelection(onStage) ==
    /\ selectedConnectionId' = IF onStage THEN null ELSE selectedConnectionId
    /\ selectedIds' = IF onStage /\ cadTool = "NONE" THEN <<>> ELSE selectedIds
    /\ UNCHANGED pipeVars

\* Stage onMouseDown.  onStage: the event target is the stage itself (empty
\* canvas) and not a shape on it.  text: what prompt() returns ("" on cancel).
handleStageMouseDown(onStage, pos, text, t) ==
    LET x == snapped(pos[1])
        y == snapped(pos[2])
    IN
    /\ contextMenu' = NoMenu
    /\ clearSelection(onStage)
    /\ lastEvent' = Event(IF onStage THEN "handleStageMouseDown:stage"
                          ELSE "handleStageMouseDown:shape", null, selectedStartId, FALSE)
    /\ IF ~draws THEN
           /\ text = ""
           /\ UNCHANGED <<docVars, histVars, cadTool, drawVars>>
       ELSE
           /\ saveToHistory
           /\ IF cadTool = "LINE" THEN
                  /\ text = ""
                  /\ tempDrawable' = [id |-> t, type |-> "LINE", points |-> <<x, y, x, y>>,
                                      stroke |-> "black"]
                  /\ isDrawing' = TRUE
                  /\ UNCHANGED <<drawables, cadTool>>
              ELSE IF cadTool = "RECT" THEN
                  /\ text = ""
                  /\ tempDrawable' = [id |-> t, type |-> "RECT", x |-> x, y |-> y,
                                      width |-> 0, height |-> 0, stroke |-> "black"]
                  /\ isDrawing' = TRUE
                  /\ UNCHANGED <<drawables, cadTool>>
              ELSE
                  /\ drawables' = IF text # ""
                                  THEN Append(drawables, [id |-> t, type |-> "TEXT", x |-> x,
                                           y |-> y, text |-> text, fill |-> "black"])
                                  ELSE drawables
                  /\ cadTool' = "NONE"
                  /\ isDrawing' = FALSE
                  /\ UNCHANGED tempDrawable
           /\ UNCHANGED <<items, connections, dxfEntities>>
    /\ now' = IF draws THEN t ELSE now
    /\ UNCHANGED <<activeLayer, editMode, snapGrid, isPanning>>

abs(v) == IF v < 0 THEN -v ELSE v

\* The mouse move without the ortho branch.
handleStageMouseMoveFree(pos, shiftKey) ==
    /\ isDrawing
    /\ tempDrawable # NoDrawable
    /\ LET x == snapped(pos[1])
           y == snapped(pos[2])
       IN tempDrawable' =
            IF tempDrawable.type = "LINE"
            THEN [tempDrawable EXCEPT !.points =
                     <<tempDrawable.points[1], tempDrawable.points[2], x, y>>]
            ELSE IF tempDrawable.type = "RECT"
            THEN [tempDrawable EXCEPT !.width = x - tempDrawable.x,
                                      !.height = y - tempDrawable.y]
            ELSE tempDrawable
    /\ tempDrawable' # tempDrawable
    /\ lastEvent' = Event(IF shiftKey THEN "handleStageMouseMove:shift"
                          ELSE "handleStageMouseMove", null, null, FALSE)
    /\ UNCHANGED <<docVars, histVars, toolVars, selVars, pipeVars, isDrawing,
                   contextMenu, now>>

handleStageMouseMove(pos, shiftKey) ==
    /\ isDrawing
    /\ tempDrawable # NoDrawable
    /\ LET x0 == snapped(pos[1])
           y0 == snapped(pos[2])
           ortho == shiftKey /\ tempDrawable.type = "LINE"
           wide == ortho /\ abs(x0 - tempDrawable.points[1]) > abs(y0 - tempDrawable.points[2])
           x == IF ortho /\ ~wide THEN tempDrawable.points[1] ELSE x0
           y == IF wide THEN tempDrawable.points[2] ELSE y0
       IN tempDrawable' =
            IF tempDrawable.type = "LINE"
            THEN [tempDrawable EXCEPT !.points =
                     <<tempDrawable.points[1], tempDrawable.points[2], x, y>>]
            ELSE IF tempDrawable.type = "RECT"
            THEN [tempDrawable EXCEPT !.width = x - tempDrawable.x,
                                      !.height = y - tempDrawable.y]
            ELSE tempDrawable
    /\ tempDrawable' # tempDrawable
    /\ lastEvent' = Event(IF shiftKey THEN "handleStageMouseMove:shift"
                          ELSE "handleStageMouseMove", null, null, FALSE)
    /\ UNCHANGED <<docVars, histVars, toolVars, selVars, pipeVars, isDrawing,
                   contextMenu, now>>

handleStageMouseUp ==
    /\ isDrawing' = FALSE
    /\ IF tempDrawable # NoDrawable
       THEN /\ drawables' = Append(drawables, tempDrawable)
            /\ tempDrawable' = NoDrawable
       ELSE UNCHANGED <<drawables, tempDrawable>>
    /\ lastEvent' = Event("handleStageMouseUp", null, null, FALSE)
    /\ UNCHANGED <<items, connections, dxfEntities, histVars, toolVars, selVars,
                   pipeVars, contextMenu, now>>

\* The CAD tool buttons, shown in CAD mode.
setCadTool(tool) ==
    /\ editMode = "CAD"
    /\ tool # cadTool
    /\ cadTool' = tool
    /\ lastEvent' = Event("setCadTool", null, null, FALSE)
    /\ UNCHANGED <<docVars, histVars, activeLayer, editMode, snapGrid, isPanning,
                   selVars, pipeVars, drawVars, contextMenu, now>>

\* ------------------------------------------------------------ drags
handleDragEndWithHistory(id, listType, nx, ny) ==
    /\ editMode = (IF listType = "ITEMS" THEN "PIPE" ELSE "CAD")
    /\ saveToHistory
    /\ items' = IF listType = "ITEMS"
                THEN map(items, LAMBDA i : IF i.id = id THEN [i EXCEPT !.x = nx, !.y = ny] ELSE i)
                ELSE items
    /\ drawables' = IF listType = "DRAWABLES"
                    THEN map(drawables, LAMBDA d :
                             IF d.id = id THEN [x |-> nx, y |-> ny] @@ d ELSE d)
                    ELSE drawables
    /\ lastEvent' = Event("handleDragEndWithHistory", null, null, FALSE)
    /\ UNCHANGED <<connections, dxfEntities, toolVars, selVars, pipeVars, drawVars,
                   contextMenu, now>>

\* Pipe line onClick.
selectConnection(id) ==
    /\ selectedConnectionId' = id
    /\ lastEvent' = Event("selectConnection", null, null, FALSE)
    /\ UNCHANGED <<docVars, histVars, toolVars, selectedIds, pipeVars, drawVars,
                   contextMenu, now>>

bendDragMoveAll(id, targetX) ==
    /\ editMode = "PIPE"
    /\ selectedConnectionId = id
    /\ \E k \in 1..Len(connections) :
          /\ connections[k].id = id
          /\ rendered(connections[k])
          /\ LET conn == connections[k]
                 start == findItem(items, conn.start)
                 end == findItem(items, conn.end)
                 newOffset == targetX - ((start.x + end.x) \div 2) - LAYER_OFFSETS[conn.layer]
             IN connections' = map(connections, LAMBDA c :
                    [c EXCEPT !.bendOffset = newOffset])
    /\ connections' # connections
    /\ lastEvent' = Event("bendDragMove", null, null, FALSE)
    /\ UNCHANGED <<items, drawables, dxfEntities, histVars, toolVars, selVars,
                   pipeVars, drawVars, contextMenu, now>>

bendDragMoveSaves(id, targetX) ==
    /\ editMode = "PIPE"
    /\ selectedConnectionId = id
    /\ \E k \in 1..Len(connections) :
          /\ connections[k].id = id
          /\ rendered(connections[k])
          /\ LET conn == connections[k]
                 start == findItem(items, conn.start)
                 end == findItem(items, conn.end)
                 newOffset == targetX - ((start.x + end.x) \div 2) - LAYER_OFFSETS[conn.layer]
             IN connections' = map(connections, LAMBDA c :
                    IF c.id = conn.id THEN [c EXCEPT !.bendOffset = newOffset] ELSE c)
    /\ connections' # connections
    /\ saveToHistory
    /\ lastEvent' = Event("bendDragMove", null, null, FALSE)
    /\ UNCHANGED <<items, drawables, dxfEntities, toolVars, selVars,
                   pipeVars, drawVars, contextMenu, now>>

\* The bend handle of the selected pipe, shown in PIPE mode: onDragMove.
bendDragMoveNoLayer(id, targetX) ==
    /\ editMode = "PIPE"
    /\ selectedConnectionId = id
    /\ \E k \in 1..Len(connections) :
          /\ connections[k].id = id
          /\ rendered(connections[k])
          /\ LET conn == connections[k]
                 start == findItem(items, conn.start)
                 end == findItem(items, conn.end)
                 newOffset == targetX - ((start.x + end.x) \div 2)
             IN connections' = map(connections, LAMBDA c :
                    IF c.id = conn.id THEN [c EXCEPT !.bendOffset = newOffset] ELSE c)
    /\ connections' # connections
    /\ lastEvent' = Event("bendDragMove", null, null, FALSE)
    /\ UNCHANGED <<items, drawables, dxfEntities, histVars, toolVars, selVars,
                   pipeVars, drawVars, contextMenu, now>>

bendDragMove(id, targetX) ==
    /\ editMode = "PIPE"
    /\ selectedConnectionId = id
    /\ \E k \in 1..Len(connections) :
          /\ connections[k].id = id
          /\ rendered(connections[k])
          /\ LET conn == connections[k]
                 start == findItem(items, conn.start)
                 end == findItem(items, conn.end)
                 newOffset == targetX - ((start.x + end.x) \div 2) - LAYER_OFFSETS[conn.layer]
             IN connections' = map(connections, LAMBDA c :
                    IF c.id = conn.id THEN [c EXCEPT !.bendOffset = newOffset] ELSE c)
    /\ connections' # connections
    /\ lastEvent' = Event("bendDragMove", null, null, FALSE)
    /\ UNCHANGED <<items, drawables, dxfEntities, histVars, toolVars, selVars,
                   pipeVars, drawVars, contextMenu, now>>

\* The bend handle's onDragEnd is saveToHistory itself.
bendDragEnd(id) ==
    /\ editMode = "PIPE"
    /\ selectedConnectionId = id
    /\ saveToHistory
    /\ lastEvent' = Event("bendDragEnd", null, null, FALSE)
    /\ UNCHANGED <<docVars, toolVars, selVars, pipeVars, drawVars, contextMenu, now>>

\* ------------------------------------------------------------ mode buttons
setEditMode(mode) ==
    /\ mode # editMode
    /\ editMode' = mode
    /\ lastEvent' = Event("setEditMode", null, null, FALSE)
    /\ UNCHANGED <<docVars, histVars, activeLayer, cadTool, snapGrid, isPanning,
                   selVars, pipeVars, drawVars, contextMenu, now>>

\* Date.now() as read by the next creation: later than the last one read.
DateNow == now + 1

\* Whether a click on item id completes a connection.
commits(id) ==
    /\ editMode = "PIPE" /\ drawPipeMode
    /\ selectedStartId # null /\ selectedStartId # id
    /\ validateConnection(items, connections, selectedStartId, id, activeLayer)

\* ------------------------------------------------------------ specifications
\* Spec: the pipe editor of part_000 (PIPE mode): placing, connecting, the
\* context menu, mouse-down on the stage, undo and redo.
Next ==
    \/ \E type \in ItemTypes :
          /\ Len(items) < MaxItems /\ canCreate(MaxClock) /\ canRecord(MaxHistory)
          /\ addItem(type, DateNow)
          /\ UNCHANGED <<ghostVars, keyDown, restVars, gesture>>
    \/ \E id \in ItemIds :
          /\ commits(id) => /\ Len(connections) < MaxConnections
                            /\ canCreate(MaxClock) /\ canRecord(MaxHistory)
          /\ handleItemClick(id, DateNow)
          /\ UNCHANGED <<ghostVars, otherVars>>
    \/ toggleDrawPipeMode /\ UNCHANGED <<ghostVars, otherVars>>
    \/ \E layer \in GAS_LAYERS : setActiveLayer(layer) /\ UNCHANGED <<ghostVars, otherVars>>
    \/ \E id \in ItemIds : handleContextMenu("ITEM", id) /\ UNCHANGED <<ghostVars, otherVars>>
    \/ \E id \in PipeIds : handleContextMenu("PIPE", id) /\ UNCHANGED <<ghostVars, otherVars>>
    \/ canRecord(MaxHistory) /\ handleMenuAction("DELETE") /\ UNCHANGED <<ghostVars, otherVars>>
    \/ cancelMenu /\ UNCHANGED <<ghostVars, otherVars>>
    \/ \E onStage \in BOOLEAN, pos \in PointerPoints :
          handleStageMouseDown(onStage, pos, "", DateNow) /\ UNCHANGED <<ghostVars, otherVars>>
    \/ handleUndo /\ UNCHANGED <<ghostVars, otherVars>>
    \/ handleRedo /\ UNCHANGED <<ghostVars, otherVars>>

Spec == Init /\ [][Next]_vars

\* SpecConnect: placing and connecting only, deep enough for three items
\* and two connections.
NextConnect ==
    \/ \E type \in ItemTypes :
          /\ Len(items) < ConnectMaxItems /\ canCreate(ConnectMaxClock)
          /\ addItem(type, DateNow)
          /\ UNCHANGED <<ghostVars, keyDown, restVars, gesture>>
    \/ \E id \in ItemIds :
          /\ commits(id) => /\ Len(connections) < ConnectMaxConnections
                            /\ canCreate(ConnectMaxClock)
          /\ handleItemClick(id, DateNow)
          /\ UNCHANGED <<ghostVars, otherVars>>
    \/ toggleDrawPipeMode /\ UNCHANGED <<ghostVars, otherVars>>
    \/ \E layer \in GAS_LAYERS : setActiveLayer(layer) /\ UNCHANGED <<ghostVars, otherVars>>

SpecConnect == Init /\ [][NextConnect]_vars
\* SpecHistory: recorded operations, undo and redo, watched by an observer
\* of round trips.  trail holds the Document before and after each operation
\* of the current run of recorded operations; undone and redone count the
\* calls of undo after the run and of redo after those.
Restart(docAfter) ==
    /\ trail' = <<docAfter>>
    /\ undone' = 0
    /\ redone' = 0

Observe ==
    IF lastEvent'.op = "handleUndo" THEN
        IF redone = 0 /\ undone < Len(trail) - 1
        THEN undone' = undone + 1 /\ UNCHANGED <<trail, redone>>
        ELSE Restart(Doc')
    ELSE IF lastEvent'.op = "handleRedo" THEN
        IF redone < undone
        THEN redone' = redone + 1 /\ UNCHANGED <<trail, undone>>
        ELSE Restart(Doc')
    ELSE IF histVars' # histVars THEN
        /\ trail' = IF undone = 0 THEN Append(trail, Doc') ELSE <<Doc, Doc'>>
        /\ undone' = 0
        /\ redone' = 0
    ELSE IF Doc' # Doc THEN Restart(Doc')
    ELSE UNCHANGED <<ghostVars, otherVars>>

NextHistory ==
    \/ \E type \in ItemTypes :
          /\ Len(items) < HistMaxItems /\ canCreate(HistMaxClock) /\ canRecord(HistMaxHistory)
          /\ addItem(type, DateNow)
          /\ Observe /\ UNCHANGED <<keyDown, restVars, gesture>>
    \/ \E id \in ItemIds :
          /\ commits(id) => canCreate(HistMaxClock) /\ canRecord(HistMaxHistory)
          /\ handleItemClick(id, DateNow)
          /\ Observe /\ UNCHANGED otherVars
    \/ toggleDrawPipeMode /\ Observe /\ UNCHANGED otherVars
    \/ \E id \in ItemIds : handleContextMenu("ITEM", id) /\ Observe /\ UNCHANGED otherVars
    \/ \E action \in {"DELETE", "ROTATE"} :
          canRecord(HistMaxHistory) /\ handleMenuAction(action) /\ Observe /\ UNCHANGED otherVars
    \/ \E id \in ItemIds, pos \in DragPoints :
          /\ canRecord(HistMaxHistory)
          /\ handleDragEndWithHistory(id, "ITEMS", pos[1], pos[2])
          /\ Observe /\ UNCHANGED otherVars
    \/ handleUndo /\ Observe /\ UNCHANGED otherVars
    \/ handleRedo /\ Observe /\ UNCHANGED otherVars

SpecHistory == Init /\ [][NextHistory]_vars

\* SpecCad: the pipe editor of part_000 with both modes: placing, the connect
\* gesture, the mode and tool buttons, and the stage's mouse-down and mouse-up.
NextCad ==
    \/ \E type \in ItemTypes :
          /\ editMode = "PIPE"
          /\ Len(items) < CadMaxItems /\ canCreate(CadMaxClock) /\ canRecord(CadMaxHistory)
          /\ addItem(type, DateNow)
          /\ UNCHANGED <<ghostVars, keyDown, restVars, gesture>>
    \/ \E id \in ItemIds :
          /\ commits(id) => /\ Len(connections) < CadMaxConnections
                            /\ canCreate(CadMaxClock) /\ canRecord(CadMaxHistory)
          /\ handleItemClick(id, DateNow)
          /\ UNCHANGED <<ghostVars, otherVars>>
    \/ toggleDrawPipeMode /\ UNCHANGED <<ghostVars, otherVars>>
    \/ \E mode \in {"PIPE", "CAD"} : setEditMode(mode) /\ UNCHANGED <<ghostVars, otherVars>>
    \/ \E tool \in {"NONE", "LINE", "TEXT"} : setCadTool(tool) /\ UNCHANGED <<ghostVars, otherVars>>
    \/ \E onStage \in BOOLEAN, pos \in PointerPoints, text \in PromptTexts :
          /\ draws => /\ canCreate(CadMaxClock) /\ canRecord(CadMaxHistory)
                      /\ Len(drawables) < CadMaxDrawables
                      /\ tempDrawable = NoDrawable
          /\ handleStageMouseDown(onStage, pos, text, DateNow)
          /\ UNCHANGED <<ghostVars, otherVars>>
    \/ handleStageMouseUp /\ UNCHANGED <<ghostVars, otherVars>>

SpecCad == Init /\ [][NextCad]_vars

\* ------------------------------------------------ FloorPlanDesigner.tsx
\* The first component of FloorPlanDesigner.tsx: no history, no context menu,
\* no validator; history, historyStep and contextMenu are not its state and
\* stay as Init leaves them.
snapToGridOff(val) == val

snapToGrid(val) == IF ~snapGrid THEN val ELSE round50(val)

\* What the deleteSelected of a render reads: the closure of that render.
closure(drws, its, conns, sel) ==
    [drawables |-> drws, items |-> its, connections |-> conns, selectedIds |-> sel]

includes(sel, id) == \E k \in 1..Len(sel) : sel[k] = id

addItemFPD(type, t) ==
    /\ LET iconUrl == IF type = "Bed" THEN BED_ICON_URL ELSE SOURCE_ICON_URL
           newItem == [id |-> t, x |-> snapToGrid(centerX), y |-> snapToGrid(centerY),
                       type |-> type, label |-> type, iconUrl |-> iconUrl]
       IN items' = Append(items, newItem)
    /\ now' = t
    /\ lastEvent' = Event("addItem", null, null, FALSE)
    /\ bedCount' = IF type = "Bed"
                   THEN Len(filter(items, LAMBDA i : i.type # "Source")) + 1
                   ELSE bedCount
    /\ UNCHANGED <<connections, drawables, dxfEntities, histVars, toolVars, selVars,
                   pipeVars, drawVars, contextMenu, keyDown>>

\* Item onClick.  The keydown listener is re-registered when selectedIds is
\* set (a new array), with the closure of the render that follows.
itemOnClick(id, t) ==
    /\ lastEvent' = Event("itemOnClick", id, selectedStartId, FALSE)
    /\ IF editMode # "PIPE" THEN
           UNCHANGED <<connections, selectedStartId, selectedIds, keyDown, now>>
       ELSE IF ~drawPipeMode THEN
           /\ selectedIds' = <<id>>
           /\ keyDown' = closure(drawables, items, connections, selectedIds')
           /\ UNCHANGED <<connections, selectedStartId, now>>
       ELSE IF selectedStartId = null THEN
           /\ selectedStartId' = id
           /\ UNCHANGED <<connections, selectedIds, keyDown, now>>
       ELSE IF selectedStartId # id THEN
           /\ connections' = Append(connections,
                  [id |-> t, start |-> selectedStartId, end |-> id, bendOffset |-> 0,
                   layer |-> activeLayer])
           /\ selectedStartId' = null
           /\ now' = t
           /\ UNCHANGED <<selectedIds, keyDown>>
       ELSE UNCHANGED <<connections, selectedStartId, selectedIds, keyDown, now>>
    /\ UNCHANGED <<items, drawables, dxfEntities, histVars, toolVars,
                   selectedConnectionId, drawPipeMode, drawVars, contextMenu>>

\* The Draw Pipe button.
toggleDrawPipeModeFPD ==
    /\ editMode = "PIPE"
    /\ drawPipeMode' = ~drawPipeMode
    /\ selectedStartId' = null
    /\ isPanning' = FALSE
    /\ lastEvent' = Event("toggleDrawPipeMode", null, null, FALSE)
    /\ UNCHANGED <<docVars, histVars, activeLayer, editMode, cadTool, snapGrid,
                   selVars, drawVars, contextMenu, now, keyDown>>

\* The Pipe System and CAD Edit buttons.
pipeSystemButton ==
    /\ editMode' = "PIPE"
    /\ cadTool' = "NONE"
    /\ isPanning' = FALSE
    /\ lastEvent' = Event("pipeSystemButton", null, null, FALSE)
    /\ UNCHANGED <<docVars, histVars, activeLayer, snapGrid, selVars, pipeVars,
                   drawVars, contextMenu, now, keyDown>>

cadEditButton ==
    /\ editMode' = "CAD"
    /\ drawPipeMode' = FALSE
    /\ isPanning' = FALSE
    /\ lastEvent' = Event("cadEditButton", null, null, FALSE)
    /\ UNCHANGED <<docVars, histVars, activeLayer, cadTool, snapGrid, selVars,
                   selectedStartId, drawVars, contextMenu, now, keyDown>>

setCadToolFPD(tool) ==
    /\ editMode = "CAD"
    /\ tool # cadTool
    /\ cadTool' = tool
    /\ lastEvent' = Event("setCadTool", null, null, FALSE)
    /\ UNCHANGED <<docVars, histVars, activeLayer, editMode, snapGrid, isPanning,
                   selVars, pipeVars, drawVars, contextMenu, now, keyDown>>

\* The connections deleteSelected keeps: those whose own id is not selected.
keptConnections(conns, sel) == filter(conns, LAMBDA c : ~includes(sel, c.id))

\* deleteSelected as defined by the render whose closure is c.
deleteSelected(c) ==
    /\ drawables' = filter(c.drawables, LAMBDA d : ~includes(c.selectedIds, d.id))
    /\ items' = filter(c.items, LAMBDA i : ~includes(c.selectedIds, i.id))
    /\ connections' = keptConnections(c.connections, c.selectedIds)
    /\ selectedIds' = <<>>
    /\ selectedConnectionId' = null
    /\ keyDown' = closure(drawables', items', connections', selectedIds')
    /\ UNCHANGED <<dxfEntities, histVars, toolVars, pipeVars, drawVars, contextMenu, now>>

\* The Delete button, shown in CAD mode and disabled with nothing selected.
deleteButton ==
    /\ editMode = "CAD"
    /\ Len(selectedIds) # 0
    /\ lastEvent' = Event("deleteSelected:button", null, null, FALSE)
    /\ deleteSelected(closure(drawables, items, connections, selectedIds))

\* Delete or Backspace: the listener registered when the selection last changed.
handleKeyDown ==
    /\ lastEvent' = Event("deleteSelected:key", null, null, FALSE)
    /\ deleteSelected(keyDown)

handleStageMouseDownFPD(onStage, pos, text, t) ==
    LET startX == snapToGrid(pos[1])
        startY == snapToGrid(pos[2])
        reselects == onStage /\ cadTool = "NONE"
    IN
    /\ selectedConnectionId' = IF onStage THEN null ELSE selectedConnectionId
    /\ selectedIds' = IF reselects THEN <<>> ELSE selectedIds
    /\ lastEvent' = Event(IF onStage THEN "handleStageMouseDown:stage"
                          ELSE "handleStageMouseDown:shape", null, selectedStartId, FALSE)
    /\ IF ~draws THEN
           /\ text = ""
           /\ UNCHANGED <<drawables, cadTool, drawVars>>
       ELSE IF cadTool = "LINE" THEN
           /\ text = ""
           /\ tempDrawable' = [id |-> t, type |-> "LINE",
                               points |-> <<startX, startY, startX, startY>>,
                               stroke |-> "black"]
           /\ isDrawing' = TRUE
           /\ UNCHANGED <<drawables, cadTool>>
       ELSE IF cadTool = "RECT" THEN
           /\ text = ""
           /\ tempDrawable' = [id |-> t, type |-> "RECT", x |-> startX, y |-> startY,
                               width |-> 0, height |-> 0, stroke |-> "black"]
           /\ isDrawing' = TRUE
           /\ UNCHANGED <<drawables, cadTool>>
       ELSE
           /\ drawables' = IF text # ""
                           THEN Append(drawables, [id |-> t, type |-> "TEXT", x |-> startX,
                                    y |-> startY, text |-> text, fill |-> "black"])
                           ELSE drawables
           /\ cadTool' = "NONE"
           /\ isDrawing' = FALSE
           /\ UNCHANGED tempDrawable
    /\ keyDown' = IF reselects \/ selectedConnectionId' # selectedConnectionId
                  THEN closure(drawables', items, connections, selectedIds')
                  ELSE keyDown
    /\ now' = IF draws THEN t ELSE now
    /\ UNCHANGED <<items, connections, dxfEntities, histVars, activeLayer, editMode,
                   snapGrid, isPanning, pipeVars, contextMenu>>

handleStageMouseUpFPD ==
    /\ isDrawing' = FALSE
    /\ IF tempDrawable # NoDrawable
       THEN /\ drawables' = Append(drawables, tempDrawable)
            /\ tempDrawable' = NoDrawable
       ELSE UNCHANGED <<drawables, tempDrawable>>
    /\ lastEvent' = Event("handleStageMouseUp", null, null, FALSE)
    /\ UNCHANGED <<items, connections, dxfEntities, histVars, toolVars, selVars,
                   pipeVars, contextMenu, now, keyDown>>

\* SpecFPD: the designer of FloorPlanDesigner.tsx.
NextFPD ==
    \/ \E type \in ItemTypes :
          /\ editMode = "PIPE"
          /\ Len(items) < FpdMaxItems /\ canCreate(FpdMaxClock)
          /\ addItemFPD(type, DateNow)
          /\ UNCHANGED <<ghostVars, restVars, gesture>>
    \/ \E id \in ItemIds :
          /\ (editMode = "PIPE" /\ drawPipeMode /\ selectedStartId \notin {null, id})
                => Len(connections) < FpdMaxConnections /\ canCreate(FpdMaxClock)
          /\ itemOnClick(id, DateNow)
          /\ UNCHANGED <<ghostVars, outVars, gesture>>
    \/ toggleDrawPipeModeFPD /\ UNCHANGED <<ghostVars, outVars, gesture>>
    \/ pipeSystemButton /\ UNCHANGED <<ghostVars, outVars, gesture>>
    \/ cadEditButton /\ UNCHANGED <<ghostVars, outVars, gesture>>
    \/ \E tool \in {"NONE", "TEXT"} : setCadToolFPD(tool) /\ UNCHANGED <<ghostVars, outVars, gesture>>
    \/ deleteButton /\ UNCHANGED <<ghostVars, outVars, gesture>>
    \/ handleKeyDown /\ UNCHANGED <<ghostVars, outVars, gesture>>
    \/ \E onStage \in BOOLEAN, pos \in PointerPoints, text \in PromptTexts :
          /\ draws => canCreate(FpdMaxClock) /\ Len(drawables) < FpdMaxDrawables
          /\ handleStageMouseDownFPD(onStage, pos, text, DateNow)
          /\ UNCHANGED <<ghostVars, outVars, gesture>>
    \/ handleStageMouseUpFPD /\ UNCHANGED <<ghostVars, outVars, gesture>>

SpecFPD == Init /\ [][NextFPD]_vars

\* ------------------------------------------------------------ claims
\* C1: after a run of N recorded operations, N calls of undo return the
\* Document to its state before the run, and N calls of redo after them
\* restore its state after the run.  (The run is the last N operations on the
\* trail, so N = undone.)
HistoryRoundTrip ==
    /\ (undone >= 1 /\ redone = 0) => Doc = trail[Len(trail) - undone]
    /\ (undone >= 1 /\ redone = undone) => Doc = trail[Len(trail)]

\* C2: one undo right after a recorded operation restores the Document the
\* operation started from.
UndoRestoresPrevious ==
    (lastEvent.op = "handleUndo" /\ undone = 1 /\ redone = 0)
        => Doc = trail[Len(trail) - 1]

\* Set of gas layers of the connections touching item id.
layersAt(id) ==
    {connections[k].layer : k \in {j \in 1..Len(connections) :
                                     connections[j].start = id \/ connections[j].end = id}}

\* C3: every Source has connections of at most one gas layer.
SourceSingleGas ==
    \A i \in 1..Len(items) :
        items[i].type = "Source" => Cardinality(layersAt(items[i].id)) <= 1

\* The step is a click on item id.
clicked(id) == lastEvent'.op = "handleItemClick" /\ lastEvent'.id = id

\* The click on item id is the second click of a connect gesture.
secondClick(id) ==
    /\ editMode = "PIPE" /\ drawPipeMode
    /\ selectedStartId # null /\ selectedStartId # id

\* Item id is a Source with a connection of a layer other than layer.
carriesOther(id, layer) ==
    /\ \E i \in 1..Len(items) : items[i].id = id /\ items[i].type = "Source"
    /\ layersAt(id) \ {layer} # {}

\* C4: a connect attempt is rejected when either endpoint is a Source that
\* carries another layer, and accepted when neither is.
ValidatorDecision ==
    [][\A id \in ItemIds :
          (clicked(id) /\ secondClick(id)) =>
             LET conflict == \/ carriesOther(selectedStartId, activeLayer)
                             \/ carriesOther(id, activeLayer)
             IN IF conflict
                THEN connections' = connections
                ELSE Len(connections') = Len(connections) + 1]_vars

\* C5: a rejected connect attempt changes neither the four collections nor
\* the history stack nor its cursor, and leaves the gesture idle.
RejectionAtomic ==
    [][\A id \in ItemIds :
          (/\ clicked(id) /\ secondClick(id)
           /\ ~validateConnection(items, connections, selectedStartId, id, activeLayer))
          => /\ UNCHANGED <<items, connections, drawables, dxfEntities>>
             /\ UNCHANGED <<history, historyStep>>
             /\ selectedStartId' = null]_vars

RejectionWitness ==
    /\ lastEvent.op = "handleItemClick" /\ lastEvent.alert
    /\ selectedStartId = null
    /\ Len(connections) = 1 /\ historyStep = 3

\* The step deletes items with one of the delete operations.
deletes ==
    /\ lastEvent'.op \in {"handleMenuAction:DELETE", "deleteSelected:button",
                          "deleteSelected:key"}
    /\ ItemIds' # ItemIds

\* C6: an operation that deletes an item removes, in the same step, every
\* connection whose start or end is that item, and no other connection.
CascadingDelete ==
    [][deletes =>
          connections' = filter(connections,
              LAMBDA c : ~(c.start \in ItemIds \ ItemIds' \/ c.end \in ItemIds \ ItemIds'))]_vars

\* C7: both endpoints of every connection are items of the Document.
NoDanglingReference ==
    \A k \in 1..Len(connections) :
        connections[k].start \in ItemIds /\ connections[k].end \in ItemIds

SameClickCancels ==
    [][\A id \in ItemIds :
          (clicked(id) /\ editMode = "PIPE" /\ drawPipeMode /\ selectedStartId = id)
          => selectedStartId' = null /\ connections' = connections]_vars

\* C9 amended: a click on the pending item itself leaves the gesture pending
\* on that item and changes neither the Document nor the history.
SameClickIgnored ==
    [][\A id \in ItemIds :
          (clicked(id) /\ editMode = "PIPE" /\ drawPipeMode /\ selectedStartId = id)
          => /\ selectedStartId' = id
             /\ UNCHANGED <<items, connections, drawables, dxfEntities>>
             /\ UNCHANGED <<history, historyStep>>]_vars

SameClickWitness ==
    /\ lastEvent.op = "handleItemClick"
    /\ lastEvent.start = lastEvent.id
    /\ selectedStartId = lastEvent.id
    /\ drawPipeMode

\* The step is a mouse-down on the empty canvas while a connection is pending.
emptyClickWhilePending ==
    /\ lastEvent'.op = "handleStageMouseDown:stage"
    /\ drawPipeMode /\ selectedStartId # null

\* C10 as claimed: a click on the empty canvas while a connection is pending
\* returns the gesture to idle and creates no connection.
EmptyClickCancels ==
    [][emptyClickWhilePending =>
          selectedStartId' = null /\ connections' = connections]_vars

\* C10 amended: a click on the empty canvas while a connection is pending
\* leaves the gesture pending on the same item and connect mode on, and
\* changes neither items nor connections.
EmptyClickKeepsPending ==
    [][emptyClickWhilePending =>
          /\ selectedStartId' = selectedStartId
          /\ drawPipeMode' = drawPipeMode
          /\ UNCHANGED <<items, connections>>]_vars

EmptyClickWitness ==
    /\ lastEvent.op = "handleStageMouseDown:stage"
    /\ lastEvent.start # null
    /\ selectedStartId = lastEvent.start
    /\ drawPipeMode

\* C11: a switch of the interaction mode leaves no pending start item and no
\* temporary drawable in progress.
ModeSwitchCancels ==
    [][lastEvent'.op = "setEditMode" =>
          selectedStartId' = null /\ tempDrawable' = NoDrawable]_vars

\* SpecCap: part_000 with a bed placed on the empty canvas and dragged to one
\* point, undo and redo; nothing but the cap of the code bounds the history.
NextCap ==
    \/ /\ items = <<>> /\ canCreate(CapMaxClock)
       /\ addItem("Bed", DateNow)
       /\ UNCHANGED <<ghostVars, keyDown, restVars, gesture>>
    \/ \E id \in ItemIds, pos \in CapDragPoints :
          /\ handleDragEndWithHistory(id, "ITEMS", pos[1], pos[2])
          /\ UNCHANGED <<ghostVars, otherVars>>
    \/ handleUndo /\ UNCHANGED <<ghostVars, otherVars>>
    \/ handleRedo /\ UNCHANGED <<ghostVars, otherVars>>

SpecCap == Init /\ [][NextCap]_vars

\* The step records a snapshot: it is one of the operations that call
\* saveToHistory.
records ==
    lastEvent'.op \in {"addItem", "handleItemClick", "handleDragEndWithHistory",
                       "handleMenuAction:DELETE", "handleMenuAction:ROTATE",
                       "bendDragEnd", "handleStageMouseDown:stage",
                       "handleStageMouseDown:shape"}
    /\ <<history, historyStep>>' # <<history, historyStep>>

\* C12: the history holds at most 20 snapshots and the cursor indexes one of
\* them; a recorded snapshot is appended after the entries up to the cursor,
\* the oldest entry is evicted when that would exceed the cap, and the cursor
\* is then at the top.
HistoryBound ==
    /\ [](/\ Len(history) <= 20
          /\ 0 <= historyStep /\ historyStep <= Len(history) - 1)
    /\ [][records =>
             LET kept == SubSeq(history, 1, historyStep + 1)
             IN /\ history' = IF Len(kept) = 20 THEN Append(Tail(kept), Doc)
                              ELSE Append(kept, Doc)
                /\ historyStep' = Len(history') - 1]_vars

\* The stack is full and both empty snapshots it started with are evicted.
HistoryBoundWitness ==
    /\ Len(history) = 20 /\ historyStep = 19
    /\ history[1] # EmptyDoc
    /\ lastEvent.op = "handleDragEndWithHistory"

\* C13: a snapshot recorded below the top of the stack replaces every entry
\* beyond the cursor and leaves the cursor at the top, and a redo right after
\* a recording operation changes neither the Document nor the history.
BranchDiscard ==
    /\ [][(records /\ historyStep < Len(history) - 1) =>
             LET kept == SubSeq(history, 1, historyStep + 1)
             IN /\ history' = IF Len(kept) = 20 THEN Append(Tail(kept), Doc)
                              ELSE Append(kept, Doc)
                /\ historyStep' = Len(history') - 1]_vars
    /\ [][(/\ lastEvent'.op = "handleRedo"
           /\ lastEvent.op \in {"addItem", "handleDragEndWithHistory",
                                "handleMenuAction:DELETE", "handleMenuAction:ROTATE"})
          => UNCHANGED <<items, connections, drawables, dxfEntities, history,
                         historyStep>>]_vars

\* A bed placed and dragged twice, one undo, a third drag, then redo: the
\* third drag recorded the restored state over the undone one, and the redo
\* restored nothing.
BranchDiscardWitness ==
    /\ lastEvent.op = "handleRedo"
    /\ Len(history) = 4 /\ historyStep = 3
    /\ history[3] = history[4] /\ history[4].items # <<>>
    /\ history[4].items[1].x # 300
    /\ items # <<>> /\ items[1].x = 300

\* SpecMount: part_000 from construction, before the effect that installs the
\* initial snapshot has run; the toolbar handlers can run against the empty
\* stack, every other operation follows the effect.
InitMount ==
    /\ history = <<>>
    /\ historyStep = 0
    /\ items = <<>>
    /\ connections = <<>>
    /\ drawables = <<>>
    /\ dxfEntities = <<>>
    /\ activeLayer = "O2"
    /\ editMode = "PIPE"
    /\ cadTool = "NONE"
    /\ snapGrid = TRUE
    /\ selectedIds = <<>>
    /\ selectedConnectionId = null
    /\ drawPipeMode = FALSE
    /\ selectedStartId = null
    /\ tempDrawable = NoDrawable
    /\ isDrawing = FALSE
    /\ isPanning = FALSE
    /\ contextMenu = NoMenu
    /\ now = 0
    /\ keyDown = [drawables |-> <<>>, items |-> <<>>, connections |-> <<>>,
                  selectedIds |-> <<>>]
    /\ lastEvent = Event("construct", null, null, FALSE)
    /\ trail = <<EmptyDoc>>
    /\ undone = 0
    /\ redone = 0
    /\ pixelsPerMeter = 50
    /\ pipeLen = <<>>
    /\ gesture = NoGesture
    /\ beds = NaN
    /\ roomType = "ward_single_4bed"
    /\ wheelCount = 0
    /\ stagePos = [x |-> Num(1, 0, 1), y |-> Num(1, 0, 1)]
    /\ stageScale = Num(1, 1, 1)
    /\ savedFile = NoFile
    /\ dxfScale = Num(1, 1, 1)
    /\ imageSrc = null
    /\ totalLen = [l \in GAS_LAYERS |-> <<>>]
    /\ bedCount = 0

mountEffect ==
    /\ Len(history) = 0
    /\ history' = <<EmptyDoc>>
    /\ lastEvent' = Event("mount", null, null, FALSE)
    /\ UNCHANGED <<historyStep, docVars, toolVars, selVars, pipeVars, drawVars,
                   contextMenu, now>>

NextMount ==
    \/ mountEffect /\ UNCHANGED <<ghostVars, otherVars>>
    \/ /\ history = <<>>
       /\ handleUndo
       /\ UNCHANGED <<ghostVars, otherVars>>
    \/ /\ history = <<>>
       /\ handleRedo
       /\ UNCHANGED <<ghostVars, otherVars>>
    \/ /\ history # <<>>
       /\ NextCap

SpecMount == InitMount /\ [][NextMount]_vars

\* C14: undo with the cursor at 0 and redo with the cursor at the top of the
\* stack, the empty stack included, change neither the Document nor the
\* history stack nor the cursor.
UndoRedoNoOp ==
    [][(\/ lastEvent'.op = "handleUndo" /\ historyStep = 0
        \/ lastEvent'.op = "handleRedo" /\ historyStep >= Len(history) - 1)
       => UNCHANGED <<items, connections, drawables, dxfEntities, history,
                      historyStep>>]_vars

\* Redo was pressed against the empty stack.
UndoRedoNoOpWitness ==
    /\ history = <<>>
    /\ lastEvent.op = "handleRedo"

\* SpecBend: the pipe editor of part_000 with the bend handle of the selected
\* pipe.  A drag of the handle is a run of move events closed by its end event;
\* the pointer is held during the run, so no other handler runs inside it.
\* gesture holds the Document and the cursor at the first move event and counts
\* the moves.
ObserveGesture ==
    gesture' = IF lastEvent'.op = "bendDragMove"
               THEN IF gesture.active
                    THEN [gesture EXCEPT !.moves = @ + 1]
                    ELSE [active |-> TRUE, doc |-> Doc, step |-> historyStep, moves |-> 1]
               ELSE IF lastEvent'.op = "bendDragEnd"
               THEN [gesture EXCEPT !.active = FALSE]
               ELSE NoGesture

NextBend ==
    \/ \E type \in {"Bed"} :
          /\ ~gesture.active
          /\ editMode = "PIPE"
          /\ Len(items) < BendMaxItems /\ canCreate(BendMaxClock)
          /\ canRecord(BendMaxHistory)
          /\ addItem(type, DateNow)
          /\ ObserveGesture /\ UNCHANGED <<ghostVars, keyDown, restVars>>
    \/ \E id \in ItemIds :
          /\ ~gesture.active
          /\ commits(id) => /\ Len(connections) < BendMaxConnections
                            /\ canCreate(BendMaxClock) /\ canRecord(BendMaxHistory)
          /\ handleItemClick(id, DateNow)
          /\ ObserveGesture /\ UNCHANGED <<ghostVars, keyDown, outVars>>
    \/ /\ ~gesture.active
       /\ toggleDrawPipeMode
       /\ ObserveGesture /\ UNCHANGED <<ghostVars, keyDown, outVars>>
    \/ \E layer \in GAS_LAYERS :
          /\ ~gesture.active
          /\ setActiveLayer(layer)
          /\ ObserveGesture /\ UNCHANGED <<ghostVars, keyDown, outVars>>
    \/ \E id \in PipeIds :
          /\ ~gesture.active
          /\ selectConnection(id)
          /\ ObserveGesture /\ UNCHANGED <<ghostVars, keyDown, outVars>>
    \/ \E id \in PipeIds, targetX \in BendXs :
          /\ gesture.active => gesture.moves < BendMaxMoves
          /\ bendDragMove(id, targetX)
          /\ ObserveGesture /\ UNCHANGED <<ghostVars, keyDown, outVars>>
    \/ \E id \in PipeIds :
          /\ gesture.active
          /\ canRecord(BendMaxHistory)
          /\ bendDragEnd(id)
          /\ ObserveGesture /\ UNCHANGED <<ghostVars, keyDown, outVars>>
    \/ \E id \in ItemIds, pos \in CapDragPoints :
          /\ ~gesture.active
          /\ canRecord(BendMaxHistory)
          /\ handleDragEndWithHistory(id, "ITEMS", pos[1], pos[2])
          /\ ObserveGesture /\ UNCHANGED <<ghostVars, keyDown, outVars>>
    \/ \E mode \in {"PIPE", "CAD"} :
          /\ ~gesture.active
          /\ setEditMode(mode)
          /\ ObserveGesture /\ UNCHANGED <<ghostVars, keyDown, outVars>>
    \/ /\ ~gesture.active
       /\ drawables = <<>>
       /\ setCadTool("TEXT")
       /\ ObserveGesture /\ UNCHANGED <<ghostVars, keyDown, outVars>>
    \/ \E pos \in PointerPoints :
          /\ ~gesture.active
          /\ draws /\ canCreate(BendMaxClock) /\ canRecord(BendMaxHistory)
          /\ handleStageMouseDown(TRUE, pos, "T", DateNow)
          /\ ObserveGesture /\ UNCHANGED <<ghostVars, keyDown, outVars>>
    \/ \E k \in 1..Len(drawables), pos \in CapDragPoints :
          /\ ~gesture.active
          /\ canRecord(BendMaxHistory)
          /\ handleDragEndWithHistory(drawables[k].id, "DRAWABLES", pos[1], pos[2])
          /\ ObserveGesture /\ UNCHANGED <<ghostVars, keyDown, outVars>>

SpecBend == Init /\ [][NextBend]_vars

\* C15: the snapshot a recording operation appends is the Document as it was
\* before the mutation took effect; for a drag of the bend handle that is the
\* Document at the start of the gesture.
SnapshotBeforeMutation ==
    [][records =>
          history'[Len(history')] = (IF lastEvent'.op = "bendDragEnd"
                                     THEN gesture.doc ELSE Doc)]_vars

\* SpecFrame: part_000 from the state reached by placing two beds and
\* connecting them twice, in the O2 and then in the VAC layer; then every
\* operation that acts on a Document holding pipes: layer change, pipe
\* selection, bend handle, item drag, and the context menu of an item or a pipe.
InitFrame ==
    LET bed(t) == [id |-> t, x |-> centerX, y |-> centerY, type |-> "Bed",
                   label |-> "Bed", iconUrl |-> BED_ICON_URL, rotation |-> 0]
        twoBeds == <<bed(1), bed(2)>>
        first == "O2"
        second == "VAC"
    IN
        /\ items = twoBeds
        /\ connections = <<newConnection(3, 1, 2, first), newConnection(4, 2, 1, second)>>
        /\ drawables = <<>>
        /\ dxfEntities = <<>>
        /\ history = <<EmptyDoc, EmptyDoc,
                       Snapshot(<<bed(1)>>, <<>>, <<>>, <<>>),
                       Snapshot(twoBeds, <<>>, <<>>, <<>>),
                       Snapshot(twoBeds, <<newConnection(3, 1, 2, first)>>, <<>>, <<>>)>>
        /\ historyStep = 4
        /\ activeLayer = second
        /\ editMode = "PIPE"
        /\ cadTool = "NONE"
        /\ snapGrid = TRUE
        /\ selectedIds = <<>>
        /\ selectedConnectionId = null
        /\ drawPipeMode = TRUE
        /\ selectedStartId = null
        /\ tempDrawable = NoDrawable
        /\ isDrawing = FALSE
        /\ isPanning = FALSE
        /\ contextMenu = NoMenu
        /\ now = 4
        /\ keyDown = [drawables |-> <<>>, items |-> <<>>, connections |-> <<>>,
                      selectedIds |-> <<>>]
        /\ lastEvent = Event("handleItemClick", 1, 2, FALSE)
        /\ trail = <<EmptyDoc>>
        /\ undone = 0
        /\ redone = 0
        /\ pixelsPerMeter = 50
        /\ pipeLen = <<>>
        /\ gesture = NoGesture
        /\ beds = NaN
        /\ roomType = "ward_single_4bed"
        /\ wheelCount = 0
        /\ stagePos = [x |-> Num(1, 0, 1), y |-> Num(1, 0, 1)]
        /\ stageScale = Num(1, 1, 1)
        /\ savedFile = NoFile
        /\ dxfScale = Num(1, 1, 1)
        /\ imageSrc = null
        /\ totalLen = [l \in GAS_LAYERS |-> <<>>]
        /\ bedCount = 0

NextFrame ==
    \/ \E layer \in GAS_LAYERS : setActiveLayer(layer) /\ UNCHANGED <<ghostVars, otherVars>>
    \/ \E id \in PipeIds : selectConnection(id) /\ UNCHANGED <<ghostVars, otherVars>>
    \/ \E id \in PipeIds, targetX \in FrameXs :
          bendDragMove(id, targetX) /\ UNCHANGED <<ghostVars, otherVars>>
    \/ \E id \in ItemIds, pos \in CapDragPoints :
          /\ canRecord(FrameMaxHistory)
          /\ handleDragEndWithHistory(id, "ITEMS", pos[1], pos[2])
          /\ UNCHANGED <<ghostVars, otherVars>>
    \/ \E id \in ItemIds : handleContextMenu("ITEM", id) /\ UNCHANGED <<ghostVars, otherVars>>
    \/ \E id \in PipeIds : handleContextMenu("PIPE", id) /\ UNCHANGED <<ghostVars, otherVars>>
    \/ \E action \in {"DELETE", "ROTATE"} :
          /\ canRecord(FrameMaxHistory)
          /\ handleMenuAction(action)
          /\ UNCHANGED <<ghostVars, otherVars>>
    \/ \E mode \in {"PIPE", "CAD"} : setEditMode(mode) /\ UNCHANGED <<ghostVars, otherVars>>
    \/ \E id \in ItemIds : itemSelect(id) /\ UNCHANGED <<ghostVars, otherVars>>

SpecFrame == InitFrame /\ [][NextFrame]_vars

NextRotate ==
    \/ /\ items = <<>> /\ canCreate(CapMaxClock) /\ canRecord(RotMaxHistory)
       /\ addItem("Bed", DateNow)
       /\ UNCHANGED <<ghostVars, keyDown, restVars, gesture>>
    \/ \E id \in ItemIds : handleContextMenu("ITEM", id) /\ UNCHANGED <<ghostVars, otherVars>>
    \/ /\ canRecord(RotMaxHistory)
       /\ handleMenuAction("ROTATE")
       /\ UNCHANGED <<ghostVars, otherVars>>
    \/ cancelMenu /\ UNCHANGED <<ghostVars, otherVars>>
    \/ handleUndo /\ UNCHANGED <<ghostVars, otherVars>>
    \/ handleRedo /\ UNCHANGED <<ghostVars, otherVars>>

SpecRotate == Init /\ [][NextRotate]_vars

\* C17: the rotation of every item and every drawable is one of 0, 90, 180
\* and 270.
RotationWraps ==
    /\ \A k \in 1..Len(items) : rotationOf(items[k]) \in {0, 90, 180, 270}
    /\ \A k \in 1..Len(drawables) : rotationOf(drawables[k]) \in {0, 90, 180, 270}

\* C18: a DELETE or ROTATE chosen from the context menu records the Document
\* as it is, then changes the entity of the type and id the menu was opened
\* on and nothing else but the connections of a deleted item, whatever is
\* selected.
MenuActsOnCaptured ==
    [][\A action \in {"DELETE", "ROTATE"} :
          lastEvent'.op = "handleMenuAction:" \o action =>
             LET id == contextMenu.id
                 type == contextMenu.type
                 others(s) == filter(s, LAMBDA e : e.id # id)
                 turned(s) == map(s, LAMBDA e :
                                  IF e.id = id THEN [rotation |-> rotationOf(e) + 90] @@ e
                                  ELSE e)
             IN /\ history'[Len(history')] = Doc
                /\ historyStep' = Len(history') - 1
                /\ items' = IF type # "ITEM" THEN items
                            ELSE IF action = "DELETE" THEN others(items) ELSE turned(items)
                /\ drawables' = IF type # "CAD" THEN drawables
                                ELSE IF action = "DELETE" THEN others(drawables)
                                ELSE turned(drawables)
                /\ connections' =
                       IF action = "DELETE" /\ type = "ITEM"
                       THEN filter(connections, LAMBDA c : c.start # id /\ c.end # id)
                       ELSE IF action = "DELETE" /\ type = "PIPE" THEN others(connections)
                       ELSE connections
                /\ UNCHANGED <<dxfEntities, selectedIds, selectedConnectionId>>]_vars

\* With an item and a pipe selected, the other pipe was deleted from its
\* context menu: the selected pipe and both items are still there.
MenuActsOnCapturedWitness ==
    /\ lastEvent.op = "handleMenuAction:DELETE"
    /\ selectedIds # <<>> /\ selectedConnectionId # null
    /\ Len(items) = 2 /\ Len(connections) = 1
    /\ connections[1].id = selectedConnectionId

\* C19: no operation changes the layer, the start or the end of a connection
\* that is there before and after it, and a move of the bend handle changes
\* the bendOffset of the dragged connection and nothing else of the Document.
ConnectionEndsFixed ==
    /\ [][lastEvent'.op \notin {"handleUndo", "handleRedo"} =>
             \A k \in 1..Len(connections), m \in 1..Len(connections') :
                connections[k].id = connections'[m].id =>
                   /\ connections'[m].layer = connections[k].layer
                   /\ connections'[m].start = connections[k].start
                   /\ connections'[m].end = connections[k].end]_vars
    /\ [][lastEvent'.op = "bendDragMove" =>
             /\ \E k \in 1..Len(connections) :
                   /\ connections[k].id = selectedConnectionId
                   /\ connections' = [connections EXCEPT
                                         ![k].bendOffset = connections'[k].bendOffset]
             /\ UNCHANGED <<items, drawables, dxfEntities>>]_vars

\* The bend handle of one of two pipes was moved after an item was dragged
\* and the layer changed: the other pipe is as it was created.
ConnectionEndsFixedWitness ==
    /\ lastEvent.op = "bendDragMove"
    /\ Len(connections) = 2
    /\ connections[1].bendOffset # 0
    /\ connections[2] = newConnection(4, 2, 1, "VAC")
    /\ connections[1].layer = "O2" /\ connections[1].start = 1 /\ connections[1].end = 2
    /\ items[1].x = 300
    /\ activeLayer = "MA4"

\* ------------------------------------------------------------ pipe length
\* Number.prototype.toFixed(2) of the quotient n / d of two integers, as the
\* number of hundredths its decimal string denotes: the quotient rounded to
\* the nearest hundredth.  (No quotient over Scales lies halfway between two
\* hundredths.)
toFixed2(n, d) == (2 * 100 * n + d) \div (2 * d)

getDistancePolyline(start, end) ==
    LET conn == connections[1]
        midX == ((start.x + end.x) \div 2) + conn.bendOffset + LAYER_OFFSETS[conn.layer]
    IN toFixed2(abs(midX - start.x) + abs(end.y - start.y) + abs(end.x - midX),
                pixelsPerMeter)

getDistance(start, end) ==
    toFixed2(abs(end.x - start.x) + abs(end.y - start.y), pixelsPerMeter)

\* The layers in the order the report walks them.
reportLayers == <<"O2", "MA4", "VAC">>

layerPipesAll(layerKey) == connections

\* connections.filter(c => c.layer === layerKey)
layerPipes(layerKey) == filter(connections, LAMBDA c : c.layer = layerKey)

\* The len of each pipe of the sequence whose two ends are found, in
\* hundredths of a meter; a pipe with a missing end is passed over.
RECURSIVE lens(_)
lens(pipes) ==
    IF pipes = <<>> THEN <<>>
    ELSE LET conn == Head(pipes)
             start == findItem(items, conn.start)
             end == findItem(items, conn.end)
         IN (IF start # NoItem /\ end # NoItem THEN <<getDistance(start, end)>> ELSE <<>>)
            \o lens(Tail(pipes))

\* totalLen += len over the lens of a layer.
RECURSIVE sum(_)
sum(s) == IF s = <<>> THEN 0 ELSE Head(s) + sum(Tail(s))

\* exportToPDF, Bill of Materials: for each layer that has pipes, the len
\* printed for each pipe whose two ends are found and the total printed for the
\* layer (totalLen.toFixed(2)), in hundredths of a meter.  A layer without
\* pipes prints nothing.
exportToPDF ==
    /\ pipeLen' = lens(layerPipes(reportLayers[1])) \o lens(layerPipes(reportLayers[2]))
                      \o lens(layerPipes(reportLayers[3]))
    /\ totalLen' = [l \in GAS_LAYERS |->
                       IF layerPipes(l) = <<>> THEN <<>> ELSE <<sum(lens(layerPipes(l)))>>]
    /\ lastEvent' = Event("exportToPDF", null, null, FALSE)
    /\ UNCHANGED <<docVars, histVars, toolVars, selVars, pipeVars, drawVars,
                   contextMenu, now, keyDown, pixelsPerMeter>>

\* SpecDistance: FloorPlanDesigner.tsx after a project was loaded that holds
\* a source, a bed and one pipe between them, and its pixelsPerMeter; then the
\* report.
InitDistance ==
    \E sx \in EndXs, sy \in EndYs, ex \in EndXs, ey \in EndYs,
       bend \in BendOffsets, layer \in GAS_LAYERS, scale \in Scales :
        /\ items = <<[id |-> 1, x |-> sx, y |-> sy, type |-> "Source",
                      label |-> "Source", iconUrl |-> SOURCE_ICON_URL],
                     [id |-> 2, x |-> ex, y |-> ey, type |-> "Bed",
                      label |-> "Bed", iconUrl |-> BED_ICON_URL]>>
        /\ connections = <<[id |-> 3, start |-> 1, end |-> 2, bendOffset |-> bend,
                            layer |-> layer]>>
        /\ drawables = <<>>
        /\ dxfEntities = <<>>
        /\ pixelsPerMeter = scale
        /\ history = <<EmptyDoc>>
        /\ historyStep = 0
        /\ activeLayer = "O2"
        /\ editMode = "PIPE"
        /\ cadTool = "NONE"
        /\ snapGrid = TRUE
        /\ selectedIds = <<>>
        /\ selectedConnectionId = null
        /\ drawPipeMode = FALSE
        /\ selectedStartId = null
        /\ tempDrawable = NoDrawable
        /\ isDrawing = FALSE
        /\ isPanning = FALSE
        /\ contextMenu = NoMenu
        /\ now = 0
        /\ keyDown = [drawables |-> <<>>, items |-> <<>>, connections |-> <<>>,
                      selectedIds |-> <<>>]
        /\ lastEvent = Event("loadProject", null, null, FALSE)
        /\ trail = <<EmptyDoc>>
        /\ undone = 0
        /\ redone = 0
        /\ pipeLen = <<>>
        /\ gesture = NoGesture
        /\ beds = NaN
        /\ roomType = "ward_single_4bed"
        /\ wheelCount = 0
        /\ stagePos = [x |-> Num(1, 0, 1), y |-> Num(1, 0, 1)]
        /\ stageScale = Num(1, 1, 1)
        /\ savedFile = NoFile
        /\ dxfScale = Num(1, 1, 1)
        /\ imageSrc = null
        /\ totalLen = [l \in GAS_LAYERS |-> <<>>]
        /\ bedCount = 0

NextDistance ==
    exportToPDF /\ UNCHANGED <<ghostVars, gesture, bedCount, fileVars, viewVars, calcVars>>

SpecDistance == InitDistance /\ [][NextDistance]_vars

\* The Manhattan distance between the two ends of the pipe, in pixels.
manhattan ==
    abs(items[2].x - items[1].x) + abs(items[2].y - items[1].y)

\* C20 as claimed: the reported length of the pipe is the Manhattan distance
\* between its ends divided by pixelsPerMeter.
LengthIsManhattan ==
    lastEvent.op = "exportToPDF" =>
        pipeLen[1] * pixelsPerMeter = 100 * manhattan

\* C20 amended: the reported length of the pipe is the Manhattan distance
\* between its ends divided by pixelsPerMeter and rounded to the nearest
\* hundredth, whatever the bendOffset and the layer of the pipe; it is that
\* quotient itself at 50 pixels per meter, and 6.00 for ends at (0,0) and
\* (300,0).
LengthIsRoundedManhattan ==
    lastEvent.op = "exportToPDF" =>
        /\ 2 * abs(pipeLen[1] * pixelsPerMeter - 100 * manhattan) <= pixelsPerMeter
        /\ pixelsPerMeter = 50 => pipeLen[1] * 50 = 100 * manhattan
        /\ (/\ pixelsPerMeter = 50
            /\ <<items[1].x, items[1].y>> = <<0, 0>>
            /\ <<items[2].x, items[2].y>> = <<300, 0>>) => pipeLen[1] = 600

\* The report of a bent VAC pipe from the source at (0,0) to the bed at
\* (300,0), at 50 pixels per meter.
LengthWitness ==
    /\ lastEvent.op = "exportToPDF"
    /\ pixelsPerMeter = 50
    /\ <<items[1].x, items[1].y>> = <<0, 0>>
    /\ <<items[2].x, items[2].y>> = <<300, 0>>
    /\ connections[1].bendOffset # 0 /\ connections[1].layer = "VAC"
    /\ pipeLen = <<600>>

\* SpecBom: FloorPlanDesigner.tsx after a project was loaded that holds three
\* items in a row and three pipes, each in a layer of its own choice, the
\* last one ending at the first item or at an item that is not there; then the
\* report.
InitBom ==
    \E first \in GAS_LAYERS, second \in GAS_LAYERS, third \in GAS_LAYERS,
       lastEnd \in {1, 9}, scale \in Scales :
        /\ items = <<[id |-> 1, x |-> 0, y |-> 0, type |-> "Source",
                      label |-> "Source", iconUrl |-> SOURCE_ICON_URL],
                     [id |-> 2, x |-> 100, y |-> 0, type |-> "Bed",
                      label |-> "Bed", iconUrl |-> BED_ICON_URL],
                     [id |-> 3, x |-> 200, y |-> 0, type |-> "Bed",
                      label |-> "Bed", iconUrl |-> BED_ICON_URL]>>
        /\ connections = <<newConnection(4, 1, 2, first), newConnection(5, 2, 3, second),
                           newConnection(6, 3, lastEnd, third)>>
        /\ drawables = <<>>
        /\ dxfEntities = <<>>
        /\ pixelsPerMeter = scale
        /\ history = <<EmptyDoc>>
        /\ historyStep = 0
        /\ activeLayer = "O2"
        /\ editMode = "PIPE"
        /\ cadTool = "NONE"
        /\ snapGrid = TRUE
        /\ selectedIds = <<>>
        /\ selectedConnectionId = null
        /\ drawPipeMode = FALSE
        /\ selectedStartId = null
        /\ tempDrawable = NoDrawable
        /\ isDrawing = FALSE
        /\ isPanning = FALSE
        /\ contextMenu = NoMenu
        /\ now = 0
        /\ keyDown = [drawables |-> <<>>, items |-> <<>>, connections |-> <<>>,
                      selectedIds |-> <<>>]
        /\ lastEvent = Event("loadProject", null, null, FALSE)
        /\ trail = <<EmptyDoc>>
        /\ undone = 0
        /\ redone = 0
        /\ pipeLen = <<>>
        /\ gesture = NoGesture
        /\ beds = NaN
        /\ roomType = "ward_single_4bed"
        /\ wheelCount = 0
        /\ stagePos = [x |-> Num(1, 0, 1), y |-> Num(1, 0, 1)]
        /\ stageScale = Num(1, 1, 1)
        /\ savedFile = NoFile
        /\ dxfScale = Num(1, 1, 1)
        /\ imageSrc = null
        /\ totalLen = [l \in GAS_LAYERS |-> <<>>]
        /\ bedCount = 2

NextBom ==
    exportToPDF /\ UNCHANGED <<ghostVars, gesture, bedCount, fileVars, viewVars, calcVars>>

SpecBom == InitBom /\ [][NextBom]_vars

\* The connections of layer l whose two ends are items of the Document, as
\* the set of their positions in connections.
aggregable(l) ==
    {k \in 1..Len(connections) :
        /\ connections[k].layer = l
        /\ connections[k].start \in ItemIds /\ connections[k].end \in ItemIds}

\* The Manhattan distance between the ends of connection k, in pixels.
span(k) ==
    LET start == findItem(items, connections[k].start)
        end == findItem(items, connections[k].end)
    IN abs(end.x - start.x) + abs(end.y - start.y)

RECURSIVE spanOver(_)
spanOver(S) == IF S = {} THEN 0 ELSE LET k == CHOOSE k \in S : TRUE
                                   IN span(k) + spanOver(S \ {k})

RECURSIVE roundedOver(_)
roundedOver(S) == IF S = {} THEN 0 ELSE LET k == CHOOSE k \in S : TRUE
                                      IN toFixed2(span(k), pixelsPerMeter) + roundedOver(S \ {k})

\* A layer has a line in the report when some connection carries it.
printed(l) == \E k \in 1..Len(connections) : connections[k].layer = l

\* C21 as claimed: the total reported for a layer is the sum, over the
\* connections of the layer whose two ends exist, of the Manhattan distance
\* between the ends divided by pixelsPerMeter (read to the two decimals the
\* report prints).
BomIsManhattanSum ==
    lastEvent.op = "exportToPDF" =>
        \A l \in GAS_LAYERS :
            printed(l) => totalLen[l] = <<toFixed2(spanOver(aggregable(l)), pixelsPerMeter)>>

\* C21 amended: the total reported for a layer that has connections is the
\* sum, over the connections of the layer whose two ends exist, of the
\* Manhattan distance divided by pixelsPerMeter, each rounded to the nearest
\* hundredth before it is added; it is the sum of the quotients themselves at
\* 50 pixels per meter; a connection with a missing end adds nothing; a layer
\* without connections has no total.
BomIsRoundedSum ==
    lastEvent.op = "exportToPDF" =>
        \A l \in GAS_LAYERS :
            /\ printed(l) => totalLen[l] = <<roundedOver(aggregable(l))>>
            /\ (printed(l) /\ pixelsPerMeter = 50) =>
                   totalLen[l][1] * 50 = 100 * spanOver(aggregable(l))
            /\ ~printed(l) => totalLen[l] = <<>>

\* The report of three O2 pipes at 30 pixels per meter, the last with a
\* missing end: two lens of 3.33 and a total of 6.66.
BomWitness ==
    /\ lastEvent.op = "exportToPDF"
    /\ pixelsPerMeter = 30
    /\ \A k \in 1..3 : connections[k].layer = "O2"
    /\ connections[3].end \notin ItemIds
    /\ pipeLen = <<333, 333>>
    /\ totalLen["O2"] = <<666>>

\* The number the Aggregates give for the Document: its items that are not a
\* Source.
terminals == Len(filter(items, LAMBDA i : i.type # "Source"))

\* C22: the bed count last reported through onBedCountChange (0 before the
\* first report) equals the number of items of the Document that are not a
\* Source, after every operation.
BedCountConsistent == bedCount = terminals

\* ------------------------------------------------------- save, load, upload
\* The width the import is scaled to.
targetWidth == 600

FileMaxItems == 1
FileMaxClock == 3
DxfMaxEntities == 2

\* The background images a user uploads, the x coordinates of the vertices of
\* an imported drawing, and its y coordinate.
Images == {1, 2}
DxfXs == {0, 300}
DxfY == 100

\* The entities of a parsed DXF file: lines between two vertices, and
\* entities of another type.
DxfEntity ==
    {[type |-> "LINE", vertices |-> <<[x |-> x0, y |-> DxfY], [x |-> x1, y |-> DxfY]>>] :
        x0 \in DxfXs, x1 \in DxfXs}
    \cup {[type |-> "CIRCLE", vertices |-> <<[x |-> 0, y |-> 0], [x |-> 0, y |-> 0]>>]}

DxfFiles == UNION {[1..n -> DxfEntity] : n \in 0..DxfMaxEntities}

fromInt(v) == IF v >= 0 THEN Num(1, v, 1) ELSE Num(-1, -v, 1)

neg(a) == Num(-a.sign, a.num, a.den)

\* a < b for numbers that are integers or infinities.
lessThan(a, b) ==
    IF a.den = 0 THEN a.sign = -1 /\ ~(b.den = 0 /\ b.sign = -1)
    ELSE IF b.den = 0 THEN b.sign = 1
    ELSE a.sign * a.num < b.sign * b.num

MathMin(a, b) == IF lessThan(b, a) THEN b ELSE a

MathMax(a, b) == IF lessThan(a, b) THEN b ELSE a

\* a - b for integers or infinities (never two infinities of one sign here).
minus(a, b) ==
    IF a.den = 0 THEN a
    ELSE IF b.den = 0 THEN neg(b)
    ELSE fromInt(a.sign * a.num - b.sign * b.num)

\* a || b: b when a is zero, a otherwise.
orElse(a, b) == IF a.num = 0 THEN b ELSE a

RECURSIVE gcd(_, _)
gcd(a, b) == IF b = 0 THEN a ELSE gcd(b, a % b)

\* n / a for a positive integer n: a signed zero over an infinity, an
\* infinity over a zero, the reduced fraction otherwise.
divide(n, a) ==
    IF a.den = 0 THEN Num(a.sign, 0, 1)
    ELSE IF a.num = 0 THEN Num(a.sign, 1, 0)
    ELSE LET g == gcd(n * a.den, a.num)
         IN Num(a.sign, (n * a.den) \div g, a.num \div g)

\* dxf.entities.forEach of processDxf from entity i on: the lines pushed and
\* the running minX and maxX; t is Date.now().
RECURSIVE scanDxf(_, _, _, _)
scanDxf(entities, i, t, acc) ==
    IF i > Len(entities) THEN acc
    ELSE LET ent == entities[i]
             line == [id |-> t + (i - 1), type |-> "LINE",
                      points |-> <<ent.vertices[1].x, -ent.vertices[1].y,
                                   ent.vertices[2].x, -ent.vertices[2].y>>]
         IN scanDxf(entities, i + 1, t,
                    IF ent.type = "LINE"
                    THEN [lines |-> Append(acc.lines, line),
                          minX |-> MathMin(acc.minX, fromInt(ent.vertices[1].x)),
                          maxX |-> MathMax(acc.maxX, fromInt(ent.vertices[1].x))]
                    ELSE acc)

\* handleUpload of a .dxf file whose parse gives entities.
processDxf(entities, t) ==
    /\ LET r == scanDxf(entities, 1, t,
                        [lines |-> <<>>, minX |-> Infinity, maxX |-> neg(Infinity)])
       IN /\ dxfScale' = divide(targetWidth, orElse(minus(r.maxX, r.minX), fromInt(1)))
          /\ dxfEntities' = r.lines
    /\ imageSrc' = null
    /\ now' = t
    /\ lastEvent' = Event("processDxf", null, null, FALSE)
    /\ UNCHANGED <<items, connections, drawables, histVars, toolVars, selVars, pipeVars,
                   drawVars, contextMenu, keyDown, savedFile>>

\* handleUpload of an image file.
handleUploadImage(src) ==
    /\ imageSrc' = src
    /\ lastEvent' = Event("handleUpload", null, null, FALSE)
    /\ UNCHANGED <<docVars, histVars, toolVars, selVars, pipeVars, drawVars, contextMenu,
                   now, keyDown, dxfScale, savedFile>>

\* handleUpload of a PDF file: its first page becomes the image.
handleUploadPdf(src) ==
    /\ imageSrc' = src
    /\ dxfEntities' = <<>>
    /\ lastEvent' = Event("handleUpload", null, null, FALSE)
    /\ UNCHANGED <<items, connections, drawables, histVars, toolVars, selVars, pipeVars,
                   drawVars, contextMenu, now, keyDown, dxfScale, savedFile>>

saveProject ==
    /\ savedFile' = [version |-> 2, imageSrc |-> imageSrc, dxfEntities |-> dxfEntities,
                     drawables |-> drawables, items |-> items, connections |-> connections,
                     pixelsPerMeter |-> pixelsPerMeter, dxfScale |-> dxfScale]
    /\ lastEvent' = Event("saveProject", null, null, FALSE)
    /\ UNCHANGED <<docVars, histVars, toolVars, selVars, pipeVars, drawVars, contextMenu,
                   now, keyDown, imageSrc, dxfScale>>

\* JSON.parse(JSON.stringify(data)): negative zero is written as 0 and an
\* infinity as null (both are read back as a falsy value, written 0 here);
\* every other value is read back as it was.
JSONparse(data) ==
    [data EXCEPT !.dxfScale = IF @.den = 0 \/ @.num = 0 THEN Num(1, 0, 1) ELSE @]

\* A field of the file is taken when it is truthy.
loadProjectTakes(value) == value # null

\* reader.onload of loadProject for the file downloaded last.
loadProject ==
    /\ savedFile # NoFile
    /\ LET data == JSONparse(savedFile)
       IN /\ imageSrc' = IF loadProjectTakes(data.imageSrc) THEN data.imageSrc ELSE imageSrc
          /\ dxfEntities' = data.dxfEntities
          /\ drawables' = data.drawables
          /\ items' = data.items
          /\ bedCount' = Len(filter(data.items, LAMBDA i : i.type # "Source"))
          /\ connections' = data.connections
          /\ pixelsPerMeter' = IF loadProjectTakes(data.pixelsPerMeter)
                               THEN data.pixelsPerMeter ELSE pixelsPerMeter
          /\ dxfScale' = IF data.dxfScale.num # 0 THEN data.dxfScale ELSE dxfScale
    /\ lastEvent' = Event("loadProject", null, null, FALSE)
    /\ UNCHANGED <<histVars, toolVars, selVars, pipeVars, drawVars, contextMenu, now,
                   keyDown, savedFile>>

NextFile ==
    \/ \E type \in ItemTypes :
          /\ Len(items) < FileMaxItems /\ canCreate(FileMaxClock)
          /\ addItemFPD(type, DateNow)
          /\ UNCHANGED <<ghostVars, restVars, gesture>>
    \/ \E src \in Images :
          handleUploadImage(src) /\ UNCHANGED <<ghostVars, measureVars, viewVars, calcVars, bedCount, gesture>>
    \/ \E src \in Images :
          handleUploadPdf(src) /\ UNCHANGED <<ghostVars, measureVars, viewVars, calcVars, bedCount, gesture>>
    \/ \E entities \in DxfFiles :
          /\ canCreate(FileMaxClock)
          /\ processDxf(entities, DateNow)
          /\ UNCHANGED <<ghostVars, measureVars, viewVars, calcVars, bedCount, gesture>>
    \/ saveProject /\ UNCHANGED <<ghostVars, measureVars, viewVars, calcVars, bedCount, gesture>>
    \/ loadProject /\ UNCHANGED <<ghostVars, pipeLen, totalLen, viewVars, calcVars, gesture>>

SpecFile == Init /\ [][NextFile]_vars

\* C23: after a load, items, connections, drawables, background entities,
\* background image, pixelsPerMeter and dxfScale equal the values the loaded
\* file was saved with, whatever the editor held before.
LoadRestoresSaved ==
    lastEvent.op = "loadProject" =>
        /\ items = savedFile.items
        /\ connections = savedFile.connections
        /\ drawables = savedFile.drawables
        /\ dxfEntities = savedFile.dxfEntities
        /\ imageSrc = savedFile.imageSrc
        /\ pixelsPerMeter = savedFile.pixelsPerMeter
        /\ dxfScale = savedFile.dxfScale

\* The import handed over no segment, or segments whose bounding box has no
\* width.
importedLines == dxfEntities

boxXs == {importedLines[k].points[1] : k \in 1..Len(importedLines)}
             \cup {importedLines[k].points[3] : k \in 1..Len(importedLines)}

malformed == importedLines = <<>> \/ \A a \in boxXs, b \in boxXs : a = b

\* C24: after an import of an empty segment list, or of one whose bounding
\* box has zero width, the stored scale is exactly 1.
MalformedImportScaleOne ==
    (lastEvent.op = "processDxf" /\ malformed) => dxfScale = Num(1, 1, 1)

\* C25: after an import whose bounding box has a width, the stored scale is
\* 600 / (maxX - minX), minX and maxX taken over both ends of every segment.
ImportScaleFitsBox ==
    (lastEvent.op = "processDxf" /\ ~malformed) =>
        \E lo \in boxXs, hi \in boxXs :
            /\ \A v \in boxXs : lo <= v /\ v <= hi
            /\ dxfScale.sign = 1
            /\ dxfScale.num * (hi - lo) = targetWidth * dxfScale.den

\* ---------------------------------------------------------------- the ids
\* SpecIds: items are placed and connected while Date.now() reads the
\* millisecond of the previous creation again or a later one.
IdsMaxItems == 2
IdsMaxConnections == 1
IdsMaxClock == 3

ClockReadings == {now, now + 1} \ {null}

NextIds ==
    \/ \E type \in ItemTypes, t \in ClockReadings :
          /\ Len(items) < IdsMaxItems /\ t <= IdsMaxClock
          /\ addItem(type, t)
          /\ UNCHANGED <<ghostVars, keyDown, restVars, gesture>>
    \/ \E id \in ItemIds, t \in ClockReadings :
          /\ commits(id) => Len(connections) < IdsMaxConnections /\ t <= IdsMaxClock
          /\ ~commits(id) => t = DateNow
          /\ handleItemClick(id, t)
          /\ UNCHANGED <<ghostVars, otherVars>>
    \/ toggleDrawPipeMode /\ UNCHANGED <<ghostVars, otherVars>>
    \/ \E layer \in GAS_LAYERS : setActiveLayer(layer) /\ UNCHANGED <<ghostVars, otherVars>>

SpecIds == Init /\ [][NextIds]_vars

unique(collection) ==
    \A j \in 1..Len(collection), k \in 1..Len(collection) :
        collection[j].id = collection[k].id => j = k

\* C26: no two items, no two connections, no two drawables and no two
\* background entities share an id.
IdsUniquePerCollection ==
    unique(items) /\ unique(connections) /\ unique(drawables) /\ unique(dxfEntities)

\* ------------------------------------------------- selection over an import
\* onClick of a background line or of a drawable: handleSelect.
handleSelect(of, id) ==
    /\ lastEvent' = Event(of, id, null, FALSE)
    /\ IF editMode # "CAD" \/ cadTool # "NONE" \/ isPanning
       THEN UNCHANGED <<selectedIds, keyDown>>
       ELSE /\ selectedIds' = <<id>>
            /\ keyDown' = closure(drawables, items, connections, selectedIds')
    /\ UNCHANGED <<docVars, histVars, toolVars, selectedConnectionId, pipeVars, drawVars,
                   contextMenu, now>>

LineIds == {dxfEntities[k].id : k \in 1..Len(dxfEntities)}

DrawableIds == {drawables[k].id : k \in 1..Len(drawables)}

SelMaxItems == 1
SelMaxDrawables == 1
SelMaxClock == 3

\* SpecSelect: FloorPlanDesigner.tsx with an imported drawing, items and
\* text drawables, selection and deleteSelected.
NextSelect ==
    \/ \E entities \in DxfFiles :
          /\ canCreate(SelMaxClock)
          /\ dxfEntities = <<>>
          /\ processDxf(entities, DateNow)
          /\ UNCHANGED <<ghostVars, measureVars, viewVars, calcVars, bedCount, gesture>>
    \/ \E type \in ItemTypes :
          /\ editMode = "PIPE"
          /\ Len(items) < SelMaxItems /\ canCreate(SelMaxClock)
          /\ addItemFPD(type, DateNow)
          /\ UNCHANGED <<ghostVars, restVars, gesture>>
    \/ \E id \in ItemIds :
          /\ ~drawPipeMode
          /\ itemOnClick(id, DateNow)
          /\ UNCHANGED <<ghostVars, outVars, gesture>>
    \/ pipeSystemButton /\ UNCHANGED <<ghostVars, outVars, gesture>>
    \/ cadEditButton /\ UNCHANGED <<ghostVars, outVars, gesture>>
    \/ \E tool \in {"NONE", "TEXT"} : setCadToolFPD(tool) /\ UNCHANGED <<ghostVars, outVars, gesture>>
    \/ \E pos \in PointerPoints :
          /\ draws => canCreate(SelMaxClock) /\ Len(drawables) < SelMaxDrawables
          /\ handleStageMouseDownFPD(TRUE, pos, IF draws THEN "T" ELSE "", DateNow)
          /\ UNCHANGED <<ghostVars, outVars, gesture>>
    \/ \E id \in LineIds :
          handleSelect("handleSelect:line", id) /\ UNCHANGED <<ghostVars, outVars, gesture>>
    \/ \E id \in DrawableIds :
          handleSelect("handleSelect:drawable", id) /\ UNCHANGED <<ghostVars, outVars, gesture>>
    \/ deleteButton /\ UNCHANGED <<ghostVars, outVars, gesture>>
    \/ handleKeyDown /\ UNCHANGED <<ghostVars, outVars, gesture>>

SpecSelect == Init /\ [][NextSelect]_vars

\* C27: a background line was selected and deleteSelected follows: no item,
\* no connection and no drawable is deleted or modified, whatever ids they
\* carry.
DeleteOfLineSparesOthers ==
    [][(lastEvent.op = "handleSelect:line" /\ lastEvent'.op = "deleteSelected:button")
          => items' = items /\ connections' = connections /\ drawables' = drawables]_vars

\* C28: after deleteSelected no drawable, background entity or item with a
\* selected id remains, the unselected entities are unchanged, and the
\* selection is empty.
DeleteSelectedRemovesAll ==
    [][lastEvent'.op = "deleteSelected:button" =>
          /\ drawables' = filter(drawables, LAMBDA d : ~includes(selectedIds, d.id))
          /\ dxfEntities' = filter(dxfEntities, LAMBDA e : ~includes(selectedIds, e.id))
          /\ items' = filter(items, LAMBDA i : ~includes(selectedIds, i.id))
          /\ selectedIds' = <<>>]_vars

\* ------------------------------------------------------------------ snap
\* The Snap to Grid button.
setSnapGrid ==
    /\ snapGrid' = ~snapGrid
    /\ lastEvent' = Event("setSnapGrid", null, null, FALSE)
    /\ UNCHANGED <<docVars, histVars, activeLayer, editMode, cadTool, isPanning, selVars,
                   pipeVars, drawVars, contextMenu, now, keyDown>>

\* onDragEnd of an item (list "ITEMS") or of a drawable (list "DRAWABLES");
\* ex, ey is where the node was dropped.
handleItemDragEnd(id, list, ex, ey) ==
    /\ editMode = (IF list = "ITEMS" THEN "PIPE" ELSE "CAD")
    /\ LET snappedX == snapToGrid(ex)
           snappedY == snapToGrid(ey)
       IN /\ items' = IF list = "ITEMS"
                      THEN map(items, LAMBDA i : IF i.id = id
                                                 THEN [i EXCEPT !.x = snappedX, !.y = snappedY]
                                                 ELSE i)
                      ELSE items
          /\ drawables' = IF list = "DRAWABLES"
                          THEN map(drawables, LAMBDA d :
                                   IF d.id = id THEN [x |-> snappedX, y |-> snappedY] @@ d ELSE d)
                          ELSE drawables
    /\ lastEvent' = Event("handleItemDragEnd", id, null, FALSE)
    /\ UNCHANGED <<connections, dxfEntities, histVars, toolVars, selVars, pipeVars,
                   drawVars, contextMenu, now, keyDown>>

SnapMaxItems == 1

\* Where a dragged node can be dropped: on and off the grid, halfway between
\* two grid lines, left of the origin.
DropCoordinates == {-75, -25, 0, 25, 50, 60, 75}

\* SpecSnap: items of FloorPlanDesigner.tsx are placed and dragged, with
\* the grid snapping on or off.
NextSnap ==
    \/ \E type \in ItemTypes :
          /\ Len(items) < SnapMaxItems
          /\ addItemFPD(type, DateNow)
          /\ UNCHANGED <<ghostVars, restVars, gesture>>
    \/ setSnapGrid /\ UNCHANGED <<ghostVars, outVars, gesture>>
    \/ \E id \in ItemIds, ex \in DropCoordinates, ey \in DropCoordinates :
          handleItemDragEnd(id, "ITEMS", ex, ey) /\ UNCHANGED <<ghostVars, outVars, gesture>>

SpecSnap == Init /\ [][NextSnap]_vars

\* The items moved by the last drag.
dropped == {k \in 1..Len(items) : items[k].id = lastEvent.id}

\* C29: with grid snapping on, the coordinates a drag stores (the snap of
\* the drop coordinates) are their own snap and are multiples of the grid
\* size 50.
SnapIdempotent ==
    (lastEvent.op = "handleItemDragEnd" /\ snapGrid) =>
        \A k \in dropped :
            /\ snapToGrid(items[k].x) = items[k].x /\ snapToGrid(items[k].y) = items[k].y
            /\ items[k].x % gridSize = 0 /\ items[k].y % gridSize = 0

\* An item dropped at (-75, 75) with the snapping on: it is stored at
\* (-50, 100).
SnapWitness ==
    /\ lastEvent.op = "handleItemDragEnd" /\ snapGrid
    /\ \E k \in dropped : items[k].x = -50 /\ items[k].y = 100

\* ------------------------------------------------------------------ zoom
\* Arithmetic on finite numbers, exact: sign * num / den in lowest terms.
fromRatio(n, d) ==
    LET g == gcd(abs(n), d)
    IN Num(IF n < 0 THEN -1 ELSE 1, abs(n) \div g, d \div g)

\* Common factors are taken out before the products are formed.
sub(a, b) ==
    LET g == gcd(a.den, b.den)
    IN fromRatio(a.sign * a.num * (b.den \div g) - b.sign * b.num * (a.den \div g),
                 (a.den \div g) * b.den)

mul(a, b) ==
    LET g == gcd(a.num, b.den)
        h == gcd(b.num, a.den)
    IN fromRatio(a.sign * b.sign * (a.num \div g) * (b.num \div h),
                 (a.den \div h) * (b.den \div g))

\* a / b for b # 0.
quot(a, b) == mul(a, Num(b.sign, b.den, b.num))

\* The factor of one wheel step, 1.1.
scaleBy == Num(1, 11, 10)

\* The Pan button.
panButton ==
    /\ isPanning' = ~isPanning
    /\ lastEvent' = Event("panButton", null, null, FALSE)
    /\ UNCHANGED <<docVars, histVars, activeLayer, editMode, cadTool, snapGrid, selVars,
                   pipeVars, drawVars, contextMenu, now, keyDown, fileVars, viewVars>>

\* The stage is draggable while panning: a drag moves it to pos.
stageDrag(pos) ==
    /\ isPanning
    /\ stagePos' = [x |-> fromInt(pos[1]), y |-> fromInt(pos[2])]
    /\ lastEvent' = Event("stageDrag", null, null, FALSE)
    /\ UNCHANGED <<docVars, histVars, toolVars, selVars, pipeVars, drawVars, contextMenu,
                   now, keyDown, fileVars, stageScale, wheelCount>>

mousePointToUnscaled(pointer) ==
    [x |-> sub(fromInt(pointer[1]), stagePos.x), y |-> sub(fromInt(pointer[2]), stagePos.y)]

\* (pointer - stage position) / oldScale
mousePointTo(pointer) ==
    [x |-> quot(sub(fromInt(pointer[1]), stagePos.x), stageScale),
     y |-> quot(sub(fromInt(pointer[2]), stagePos.y), stageScale)]

newScale(zoomIn) == IF zoomIn THEN mul(stageScale, scaleBy) ELSE quot(stageScale, scaleBy)

\* Where the pointer can be over the stage when the wheel turns.
WheelPointers == <<<<120, 40>>, <<400, 300>>>>

\* onWheel with the pointer at WheelPointers[k]; zoomIn is deltaY < 0.
handleWheel(k, zoomIn) ==
    LET pointer == WheelPointers[k]
    IN /\ stageScale' = newScale(zoomIn)
       /\ stagePos' = [x |-> sub(fromInt(pointer[1]), mul(mousePointTo(pointer).x, newScale(zoomIn))),
                       y |-> sub(fromInt(pointer[2]), mul(mousePointTo(pointer).y, newScale(zoomIn)))]
       /\ wheelCount' = wheelCount + 1
       /\ lastEvent' = Event("handleWheel", k, null, FALSE)
       /\ UNCHANGED <<docVars, histVars, toolVars, selVars, pipeVars, drawVars, contextMenu,
                      now, keyDown, fileVars>>

ZoomMaxSteps == 3

\* Where a pan can leave the stage.
PanPoints == {<<0, 0>>, <<-30, 70>>}

\* SpecZoom: the view of the stage under wheel steps and pans.
NextZoom ==
    \/ panButton /\ UNCHANGED <<ghostVars, measureVars, calcVars, bedCount, gesture>>
    \/ \E pos \in PanPoints :
          stageDrag(pos) /\ UNCHANGED <<ghostVars, measureVars, calcVars, bedCount, gesture>>
    \/ \E k \in 1..Len(WheelPointers), zoomIn \in BOOLEAN :
          /\ wheelCount < ZoomMaxSteps
          /\ handleWheel(k, zoomIn)
          /\ UNCHANGED <<ghostVars, measureVars, calcVars, bedCount, gesture>>

SpecZoom == Init /\ [][NextZoom]_vars

\* The world point under pointer for a stage at pos with scale scale.
worldPoint(pointer, pos, scale) ==
    [x |-> quot(sub(fromInt(pointer[1]), pos.x), scale),
     y |-> quot(sub(fromInt(pointer[2]), pos.y), scale)]

DragStagesOnly ==
    (gesture.active /\ lastEvent.op = "bendDragMove") =>
        /\ items = gesture.doc.items
        /\ connections = gesture.doc.connections

\* ---------------------------------------------------------------- router
\* The bend column of a rendered connection and the points of its line.
midX(its, conn) ==
    LET start == findItem(its, conn.start)
        end == findItem(its, conn.end)
    IN ((start.x + end.x) \div 2) + conn.bendOffset + LAYER_OFFSETS[conn.layer]

points(its, conn) ==
    LET start == findItem(its, conn.start)
        end == findItem(its, conn.end)
    IN <<start.x, start.y, midX(its, conn), start.y, midX(its, conn), end.y, end.x, end.y>>

\* C32: a move of the bend handle of a connection to x-coordinate X stores
\* bendOffset = X - (A.x + B.x)/2 - layerOffset(L); the bend column then drawn
\* for the connection is X, in each layer, and its line runs through
\* A, (X, A.y), (X, B.y), B.
BendRoundTrip ==
    [][\A id \in PipeIds, X \in BendXs :
          bendDragMove(id, X) =>
              \A k \in 1..Len(connections') :
                  connections'[k].id = id =>
                      LET conn == connections'[k]
                          A == findItem(items', conn.start)
                          B == findItem(items', conn.end)
                      IN /\ conn.layer \in GAS_LAYERS
                         /\ 2 * (conn.bendOffset - X + LAYER_OFFSETS[conn.layer]) = -(A.x + B.x)
                         /\ midX(items', conn) = X
                         /\ points(items', conn) = <<A.x, A.y, X, A.y, X, B.y, B.x, B.y>>]_vars

\* The handle of an MA4 pipe between items at x = 300 and x = 400 was moved
\* to 450: bendOffset 125, bend column 450.
BendRoundTripWitness ==
    /\ lastEvent.op = "bendDragMove"
    /\ \E k \in 1..Len(connections) :
          /\ connections[k].id = selectedConnectionId
          /\ connections[k].layer = "MA4"
          /\ findItem(items, connections[k].start).x + findItem(items, connections[k].end).x = 700
          /\ connections[k].bendOffset = 125
          /\ midX(items, connections[k]) = 450

\* The connections of a Document join two different item ids.
joinsDistinct(conns) == \A k \in 1..Len(conns) : conns[k].start # conns[k].end

\* C33: no connection of the Document, nor of a Document the history holds,
\* starts and ends at the same item.
NoSelfConnection ==
    /\ joinsDistinct(connections)
    /\ \A h \in 1..Len(history) : joinsDistinct(history[h].connections)

\* The second click of a connect gesture has just created a connection from
\* the pending item to the clicked one.
NoSelfConnectionWitness ==
    /\ lastEvent.op = "handleItemClick"
    /\ lastEvent.start # null /\ lastEvent.start # lastEvent.id
    /\ connections # <<>>
    /\ connections[Len(connections)].start = lastEvent.start
    /\ connections[Len(connections)].end = lastEvent.id
    /\ selectedStartId = null

\* C34: whenever a connection is pending on an item, that item is in the
\* items of the Document.
PendingStartExists == selectedStartId # null => selectedStartId \in ItemIds

\* C35: a context-menu action or a click with the text tool that leaves the
\* Document as it was appends no snapshot and does not move the cursor.
NoChangeNoSnapshot ==
    [][(/\ \/ lastEvent'.op \in {"handleMenuAction:ROTATE", "handleMenuAction:DELETE"}
           \/ /\ lastEvent'.op \in {"handleStageMouseDown:stage", "handleStageMouseDown:shape"}
              /\ cadTool = "TEXT"
        /\ Doc' = Doc)
          => history' = history /\ historyStep' = historyStep]_vars

\* ----------------------------------------------------- part_001 multi-select
toggleSelectedAppends(sel, id) == Append(sel, id)

\* handleSelect of part_001 (handleEntityClick of part_002): the selection
\* without id when it holds id, with id at its end otherwise.
toggleSelected(sel, id) ==
    IF includes(sel, id) THEN filter(sel, LAMBDA sid : sid # id) ELSE Append(sel, id)

\* onClick of a background line or of a drawable in part_001.
handleSelectV1(id) ==
    /\ lastEvent' = Event("handleSelect:toggle", id, null, FALSE)
    /\ selectedIds' = IF editMode # "CAD" \/ cadTool # "NONE" THEN selectedIds
                      ELSE toggleSelected(selectedIds, id)
    /\ UNCHANGED <<docVars, histVars, toolVars, selectedConnectionId, pipeVars, drawVars,
                   contextMenu, now, keyDown>>

\* deleteSelected of part_001.
deleteSelectedV1 ==
    /\ Len(selectedIds) # 0
    /\ dxfEntities' = filter(dxfEntities, LAMBDA e : ~includes(selectedIds, e.id))
    /\ drawables' = filter(drawables, LAMBDA d : ~includes(selectedIds, d.id))
    /\ selectedIds' = <<>>
    /\ lastEvent' = Event("deleteSelected:button", null, null, FALSE)
    /\ UNCHANGED <<items, connections, histVars, toolVars, selectedConnectionId, pipeVars,
                   drawVars, contextMenu, now, keyDown>>

\* handleStageMouseDown of part_001 with the select tool or the text tool.
handleStageMouseDownV1(onStage, pos, text, t) ==
    /\ cadTool \in {"NONE", "TEXT"}
    /\ selectedConnectionId' = IF onStage THEN null ELSE selectedConnectionId
    /\ selectedIds' = IF onStage /\ cadTool = "NONE" THEN <<>> ELSE selectedIds
    /\ lastEvent' = Event(IF onStage THEN "handleStageMouseDown:stage"
                          ELSE "handleStageMouseDown:shape", null, null, FALSE)
    /\ IF editMode # "CAD" \/ cadTool = "NONE"
       THEN /\ text = ""
            /\ UNCHANGED <<drawables, cadTool, isDrawing, now>>
       ELSE /\ drawables' = IF text # ""
                            THEN Append(drawables, [id |-> t, type |-> "TEXT", x |-> pos[1],
                                                    y |-> pos[2], text |-> text, fill |-> "black"])
                            ELSE drawables
            /\ cadTool' = "NONE"
            /\ isDrawing' = FALSE
            /\ now' = t
    /\ UNCHANGED <<items, connections, dxfEntities, histVars, activeLayer, editMode, snapGrid,
                   isPanning, pipeVars, tempDrawable, contextMenu, keyDown>>

MultiMaxClock == 3

\* SpecMulti: the CAD mode of part_001: texts are placed, entities are
\* clicked, the selection is deleted.
NextMulti ==
    \/ pipeSystemButton /\ UNCHANGED <<ghostVars, outVars, gesture>>
    \/ cadEditButton /\ UNCHANGED <<ghostVars, outVars, gesture>>
    \/ \E tool \in {"NONE", "TEXT"} : setCadToolFPD(tool) /\ UNCHANGED <<ghostVars, outVars, gesture>>
    \/ \E onStage \in BOOLEAN, pos \in PointerPoints, text \in PromptTexts :
          /\ (editMode = "CAD" /\ cadTool = "TEXT") =>
                 text # "" /\ canCreate(MultiMaxClock)
          /\ ~onStage => drawables # <<>>
          /\ handleStageMouseDownV1(onStage, pos, text, DateNow)
          /\ UNCHANGED <<ghostVars, outVars, gesture>>
    \/ \E id \in DrawableIds : handleSelectV1(id) /\ UNCHANGED <<ghostVars, outVars, gesture>>
    \/ deleteSelectedV1 /\ UNCHANGED <<ghostVars, outVars, gesture>>

SpecMulti == Init /\ [][NextMulti]_vars

asSet(sel) == {sel[k] : k \in 1..Len(sel)}

\* C36: in CAD mode with the select tool, a click on an entity id adds it to
\* the selection when absent and removes it when present, the membership of
\* every other id stays, a second click on the id would give the selection
\* before the first again, and no id is in the selection twice.
ToggleSelection ==
    [][(lastEvent'.op = "handleSelect:toggle" /\ editMode = "CAD" /\ cadTool = "NONE") =>
          LET id == lastEvent'.id
          IN /\ (id \in asSet(selectedIds')) = (id \notin asSet(selectedIds))
             /\ asSet(selectedIds') \ {id} = asSet(selectedIds) \ {id}
             /\ asSet(toggleSelected(selectedIds', id)) = asSet(selectedIds)
             /\ \A j \in 1..Len(selectedIds'), k \in 1..Len(selectedIds') :
                    selectedIds'[j] = selectedIds'[k] => j = k]_vars

\* Three entities were selected and one of them was clicked again.
ToggleSelectionWitness ==
    /\ lastEvent.op = "handleSelect:toggle" /\ editMode = "CAD" /\ cadTool = "NONE"
    /\ Len(drawables) = 3
    /\ Len(selectedIds) = 2
    /\ lastEvent.id \in DrawableIds \ asSet(selectedIds)

\* SpecLayers: part_000 with beds only: placing and connecting in each layer
\* and, once the pipes are drawn and Draw Pipe is off, selecting a pipe and
\* moving its bend handle.
LayersMaxItems == 2
LayersMaxConnections == 2
LayersMaxClock == 4
LayerXs == {450}

NextLayers ==
    \/ /\ Len(items) < LayersMaxItems /\ canCreate(LayersMaxClock)
       /\ addItem("Bed", DateNow)
       /\ UNCHANGED <<ghostVars, keyDown, restVars, gesture>>
    \/ \E id \in ItemIds :
          /\ commits(id) => /\ Len(connections) < LayersMaxConnections
                            /\ canCreate(LayersMaxClock)
          /\ handleItemClick(id, DateNow)
          /\ UNCHANGED <<ghostVars, otherVars>>
    \/ toggleDrawPipeMode /\ UNCHANGED <<ghostVars, otherVars>>
    \/ \E layer \in GAS_LAYERS : setActiveLayer(layer) /\ UNCHANGED <<ghostVars, otherVars>>
    \/ \E id \in PipeIds :
          /\ Len(connections) = LayersMaxConnections /\ ~drawPipeMode
          /\ selectConnection(id)
          /\ UNCHANGED <<ghostVars, otherVars>>
    \/ \E id \in PipeIds, targetX \in LayerXs :
          /\ Len(connections) = LayersMaxConnections /\ ~drawPipeMode
          /\ bendDragMove(id, targetX)
          /\ UNCHANGED <<ghostVars, otherVars>>

SpecLayers == Init /\ [][NextLayers]_vars

\* Two connections between the same two items.
sameEnds(c, d) == {c.start, c.end} = {d.start, d.end}

\* C37: two drawn connections of different gas layers with the same
\* endpoints and the same bendOffset have different bend columns; the layer
\* offsets 0, -25 and 25 are pairwise distinct.
LayersSeparate ==
    /\ \A l \in GAS_LAYERS, m \in GAS_LAYERS : l # m => LAYER_OFFSETS[l] # LAYER_OFFSETS[m]
    /\ LAYER_OFFSETS["O2"] = 0 /\ LAYER_OFFSETS["MA4"] = -25 /\ LAYER_OFFSETS["VAC"] = 25
    /\ \A j \in 1..Len(connections), k \in 1..Len(connections) :
          (/\ rendered(connections[j]) /\ rendered(connections[k])
           /\ connections[j].layer # connections[k].layer
           /\ sameEnds(connections[j], connections[k])
           /\ connections[j].bendOffset = connections[k].bendOffset)
              => midX(items, connections[j]) # midX(items, connections[k])

\* An MA4 pipe and a VAC pipe between the same two items, both with
\* bendOffset 0, drawn 50 apart.
LayersSeparateWitness ==
    /\ Len(connections) = 2
    /\ rendered(connections[1]) /\ rendered(connections[2])
    /\ connections[1].layer = "MA4" /\ connections[2].layer = "VAC"
    /\ sameEnds(connections[1], connections[2])
    /\ connections[1].bendOffset = connections[2].bendOffset
    /\ midX(items, connections[2]) - midX(items, connections[1]) = 50

\* ----------------------------------------------------------------- ortho
\* SpecOrtho: drawing lines with the CAD tool of part_000: the mode and tool
\* buttons, the Snap to Grid button, and the stage's mouse-down, mouse-move
\* (with and without Shift) and mouse-up.
OrthoMaxClock == 1
OrthoXs == {0, 30}
OrthoPoints == OrthoXs \X OrthoXs

NextOrtho ==
    \/ \E mode \in {"PIPE", "CAD"} : setEditMode(mode) /\ UNCHANGED <<ghostVars, otherVars>>
    \/ \E tool \in {"NONE", "LINE"} : setCadTool(tool) /\ UNCHANGED <<ghostVars, otherVars>>
    \/ setSnapGrid /\ UNCHANGED <<ghostVars, outVars, gesture>>
    \/ \E onStage \in BOOLEAN, pos \in OrthoPoints :
          /\ draws => canCreate(OrthoMaxClock) /\ tempDrawable = NoDrawable
          /\ handleStageMouseDown(onStage, pos, "", DateNow)
          /\ UNCHANGED <<ghostVars, otherVars>>
    \/ \E pos \in OrthoPoints, shiftKey \in BOOLEAN :
          /\ handleStageMouseMove(pos, shiftKey)
          /\ UNCHANGED <<ghostVars, otherVars>>
    \/ handleStageMouseUp /\ UNCHANGED <<ghostVars, otherVars>>

SpecOrtho == Init /\ [][NextOrtho]_vars

\* A line is being drawn and the last mouse move had Shift held.
orthoMoved ==
    /\ lastEvent.op = "handleStageMouseMove:shift"
    /\ tempDrawable # NoDrawable
    /\ tempDrawable.type = "LINE"

\* C38 as stated: after a mouse move with Shift held while a line is drawn,
\* the free endpoint differs from the anchor along exactly one axis.
OrthoExactlyOneAxis ==
    orthoMoved =>
        (tempDrawable.points[3] # tempDrawable.points[1])
            # (tempDrawable.points[4] # tempDrawable.points[2])

\* C38: a mouse move with Shift held while a line is drawn keeps the anchor
\* and puts the free endpoint on the anchor's row or column: when |dx| > |dy|
\* (measured from the anchor on the snapped pointer) y is the anchor's y and x
\* keeps its snapped value, otherwise (|dx| <= |dy|, the tie included) x is
\* the anchor's x and y keeps its snapped value; the endpoint differs from the
\* anchor along at most one axis, and along none when the snapped pointer is
\* the anchor.
OrthoAtMostOneAxis ==
    [][\A pos \in OrthoPoints :
          (handleStageMouseMove(pos, TRUE) /\ tempDrawable.type = "LINE") =>
              LET ax == tempDrawable.points[1]
                  ay == tempDrawable.points[2]
                  dx == snapped(pos[1]) - ax
                  dy == snapped(pos[2]) - ay
                  end == <<tempDrawable'.points[3], tempDrawable'.points[4]>>
              IN /\ tempDrawable'.points[1] = ax /\ tempDrawable'.points[2] = ay
                 /\ end = IF abs(dx) > abs(dy) THEN <<ax + dx, ay>> ELSE <<ax, ay + dy>>
                 /\ end[1] = ax \/ end[2] = ay
                 /\ (dx = 0 /\ dy = 0) => end = <<ax, ay>>]_vars

\* With the grid off, a Shift move from the anchor (0, 0) gave the vertical
\* line to (0, 30): the pointer was at (0, 30) or, a tie, at (30, 30).
OrthoWitness ==
    /\ orthoMoved
    /\ ~snapGrid
    /\ tempDrawable.points = <<0, 0, 0, 30>>

\* ------------------------------------------------------------ gas loads
\* The calculator page: a room type select and a beds input; the results
\* are computed from the two on every render.
designVars == <<docVars, histVars, toolVars, selVars, pipeVars, drawVars, contextMenu,
                now, lastEvent, ghostVars, keyDown, gesture, bedCount, measureVars,
                fileVars, viewVars>>

setRoomType(value) ==
    /\ value # roomType
    /\ roomType' = value
    /\ UNCHANGED beds

\* The text of the beds input, as the number parseFloat reads from it: NaN
\* for the empty text.
setBeds(value) ==
    /\ value # beds
    /\ beds' = value
    /\ UNCHANGED roomType

parseFloat(text) == text

\* Finite numbers: a + b, a <= b, and Math.ceil.
add(a, b) == sub(a, neg(b))

lessEq(a, b) == a.sign * a.num * b.den <= b.sign * b.num * a.den

MathCeil(a) ==
    IF a.sign > 0 THEN fromInt((a.num + a.den - 1) \div a.den)
    ELSE fromInt(-(a.num \div a.den))

\* The flow a gas has without a formula, and the results before the switch.
NoFlow == fromInt(0)
NoResult == [flow |-> NoFlow, pipe |-> ""]
NoResults == [oxygen |-> NoResult, medicalAir |-> NoResult, surgicalAir |-> NoResult,
              vacuum |-> NoResult]

getPipeSize(flow, type) ==
    IF lessEq(flow, fromInt(0)) THEN "N/A"
    ELSE IF type \in {"oxygen", "medical_air", "nitrous_oxide"} THEN
        IF lessEq(flow, fromInt(307)) THEN "12mm Copper"
        ELSE IF lessEq(flow, fromInt(572)) THEN "15mm Copper"
        ELSE IF lessEq(flow, fromInt(1656)) THEN "22mm Copper"
        ELSE IF lessEq(flow, fromInt(3320)) THEN "28mm Copper"
        ELSE IF lessEq(flow, fromInt(5943)) THEN "35mm Copper"
        ELSE IF lessEq(flow, fromInt(9963)) THEN "42mm Copper"
        ELSE "54mm+ (Consult Engineer)"
    ELSE IF type = "surgical_air" THEN
        IF lessEq(flow, fromInt(405)) THEN "12mm Copper"
        ELSE IF lessEq(flow, fromInt(754)) THEN "15mm Copper"
        ELSE IF lessEq(flow, fromInt(2175)) THEN "22mm Copper"
        ELSE IF lessEq(flow, fromInt(4351)) THEN "28mm Copper"
        ELSE "35mm+ (Consult Engineer)"
    ELSE IF type = "vacuum" THEN
        IF lessEq(flow, fromInt(60)) THEN "12mm Copper"
        ELSE IF lessEq(flow, fromInt(113)) THEN "15mm Copper"
        ELSE IF lessEq(flow, fromInt(330)) THEN "22mm Copper"
        ELSE IF lessEq(flow, fromInt(666)) THEN "28mm Copper"
        ELSE IF lessEq(flow, fromInt(1198)) THEN "35mm Copper"
        ELSE IF lessEq(flow, fromInt(2016)) THEN "42mm Copper"
        ELSE "54mm+ (Consult Engineer)"
    ELSE "Calc Req"

\* base + ((n - 1) * per) / over
diversified(base, n, per, over) ==
    add(fromInt(base), quot(mul(sub(n, fromInt(1)), fromInt(per)), fromInt(over)))

\* The unrounded flows of the switch: oxygen, medical air, surgical air, vacuum.
flows(type, n) ==
    LET Q(o, m, s, v) == [oxygen |-> o, medicalAir |-> m, surgicalAir |-> s, vacuum |-> v]
        d(base, per, over) == diversified(base, n, per, over)
    IN CASE type \in {"ward_single_4bed", "ward_department"} ->
                Q(d(10, 6, 4), d(20, 10, 4), NoFlow, fromInt(40))
         [] type = "ae_resus" -> Q(d(100, 6, 4), d(40, 20, 4), NoFlow, d(40, 40, 4))
         [] type = "ae_major_treatment" -> Q(d(10, 6, 4), d(40, 20, 4), NoFlow, d(40, 40, 4))
         [] type = "ae_treatment_cubicle" -> Q(d(10, 6, 10), NoFlow, NoFlow, d(40, 40, 8))
         [] type = "operating_rooms" ->
                Q(d(100, 10, 1), d(40, 40, 4),
                  IF ~lessEq(fromInt(4), n) THEN d(350, 350, 2) ELSE d(350, 350, 4),
                  d(80, 80, 2))
         [] type = "recovery" -> Q(d(10, 6, 1), d(40, 10, 4), NoFlow, d(40, 40, 4))
         [] type = "maternity_ldrp" -> Q(d(10, 6, 4), d(40, 40, 4), NoFlow, d(40, 40, 4))
         [] type = "maternity_operating" -> Q(d(100, 6, 1), d(40, 10, 4), NoFlow, d(80, 80, 2))
         [] type = "neonatal" -> Q(d(10, 6, 1), mul(fromInt(40), n), NoFlow, d(40, 40, 4))
         [] type = "critical_care" -> Q(d(10, 18, 4), d(80, 80, 2), NoFlow, d(40, 40, 4))
         [] type = "renal" -> Q(d(10, 6, 4), d(20, 10, 4), NoFlow, d(40, 40, 4))
         [] type = "radiology" -> Q(d(10, 6, 3), d(40, 40, 4), NoFlow, d(40, 40, 8))
         [] OTHER -> Q(NoFlow, NoFlow, NoFlow, NoFlow)

calculateGasLoad(type, count) ==
    LET n == orElse(parseFloat(count), fromInt(0))
        sized(flow, gas) == [flow |-> MathCeil(flow), pipe |-> getPipeSize(MathCeil(flow), gas)]
    IN IF lessEq(n, fromInt(0)) THEN NoResults
       ELSE [oxygen |-> sized(flows(type, n).oxygen, "oxygen"),
             medicalAir |-> sized(flows(type, n).medicalAir, "medical_air"),
             surgicalAir |-> sized(flows(type, n).surgicalAir, "surgical_air"),
             vacuum |-> sized(flows(type, n).vacuum, "vacuum")]

data == calculateGasLoad(roomType, beds)

\* SpecGas: the calculator with the room types of its select and whole
\* numbers of beds.
GasMaxBeds == 8
RoomTypes == {"ward_single_4bed", "ward_department", "maternity_ldrp", "neonatal",
              "critical_care", "renal", "operating_rooms", "recovery",
              "maternity_operating", "radiology", "ae_resus", "ae_major_treatment",
              "ae_treatment_cubicle"}
BedTexts == {NaN} \cup {fromInt(k) : k \in 0..GasMaxBeds}

NextGas ==
    \/ \E value \in RoomTypes : setRoomType(value) /\ UNCHANGED designVars
    \/ \E value \in BedTexts : setBeds(value) /\ UNCHANGED designVars

SpecGas == Init /\ [][NextGas]_vars

Gases == {"oxygen", "medicalAir", "surgicalAir", "vacuum"}

\* The bore a pipe text names, in mm; 0 for no pipe.
bore(pipe) ==
    CASE pipe = "12mm Copper" -> 12
      [] pipe = "15mm Copper" -> 15
      [] pipe = "22mm Copper" -> 22
      [] pipe = "28mm Copper" -> 28
      [] pipe = "35mm Copper" -> 35
      [] pipe = "35mm+ (Consult Engineer)" -> 36
      [] pipe = "42mm Copper" -> 42
      [] pipe = "54mm+ (Consult Engineer)" -> 54
      [] OTHER -> 0

\* The beds input goes from a whole number n >= 1 to a larger one.
moreBeds ==
    /\ roomType' = roomType
    /\ beds.den = 1 /\ beds'.den = 1
    /\ lessEq(fromInt(1), beds)
    /\ lessEq(beds, beds') /\ beds # beds'

\* The results of the render that follows the step.
after == calculateGasLoad(roomType', beds')

\* C39: when the number of beds grows and the room type stays, no gas's
\* rounded flow gets smaller and no recommended pipe gets narrower.
GasLoadMonotone ==
    [][moreBeds =>
          \A g \in Gases :
              /\ lessEq(data[g].flow, after[g].flow)
              /\ bore(data[g].pipe) <= bore(after[g].pipe)]_vars

\* ------------------------------------------------ gas loads, first variant
\* recommendPipe with the limits excluded.
recommendPipeStrict(flowRate) ==
    IF lessEq(flowRate, fromInt(0)) THEN "N/A"
    ELSE IF ~lessEq(fromInt(40), flowRate) THEN "12mm Copper"
    ELSE IF ~lessEq(fromInt(110), flowRate) THEN "15mm Copper"
    ELSE IF ~lessEq(fromInt(350), flowRate) THEN "22mm Copper"
    ELSE IF ~lessEq(fromInt(800), flowRate) THEN "28mm Copper"
    ELSE IF ~lessEq(fromInt(1500), flowRate) THEN "35mm Copper"
    ELSE "42mm+ (Detailed Calc Req)"

recommendPipe(flowRate) ==
    IF lessEq(flowRate, fromInt(0)) THEN "N/A"
    ELSE IF lessEq(flowRate, fromInt(40)) THEN "12mm Copper"
    ELSE IF lessEq(flowRate, fromInt(110)) THEN "15mm Copper"
    ELSE IF lessEq(flowRate, fromInt(350)) THEN "22mm Copper"
    ELSE IF lessEq(flowRate, fromInt(800)) THEN "28mm Copper"
    ELSE IF lessEq(flowRate, fromInt(1500)) THEN "35mm Copper"
    ELSE "42mm+ (Detailed Calc Req)"

\* The unrounded flows of the switch: oxygen, air, vacuum. The literal 0.3
\* is taken as 3/10.
flowsSimple(type, n) ==
    LET Q(o, a, v) == [oxygen |-> o, air |-> a, vacuum |-> v]
        less1 == sub(n, fromInt(1))
        times(k) == mul(n, fromInt(k))
    IN CASE type = "ward" ->
                Q(add(fromInt(10), quot(mul(less1, fromInt(6)), fromInt(4))), NoFlow,
                  add(fromInt(5), mul(mul(less1, fromInt(5)), fromRatio(3, 10))))
         [] type = "icu_standard" ->
                Q(add(fromInt(20), mul(less1, fromInt(10))), times(20), times(40))
         [] type = "icu_high_flow" -> Q(times(60), times(40), times(50))
         [] type = "theatre" ->
                Q(add(fromInt(100), mul(less1, fromInt(20))), times(40), times(120))
         [] OTHER -> Q(NoFlow, NoFlow, NoFlow)

\* The pipe is chosen from the unrounded flow, then the flow is rounded up.
calculateGasLoadSimple(type, count) ==
    LET n == orElse(parseFloat(count), fromInt(0))
        sized(flow) == [flow |-> MathCeil(flow), pipe |-> recommendPipe(flow)]
    IN IF lessEq(n, fromInt(0))
       THEN [oxygen |-> NoResult, air |-> NoResult, vacuum |-> NoResult]
       ELSE [oxygen |-> sized(flowsSimple(type, n).oxygen),
             air |-> sized(flowsSimple(type, n).air),
             vacuum |-> sized(flowsSimple(type, n).vacuum)]

dataSimple == calculateGasLoadSimple(roomType, beds)

\* SpecPipe: the calculator of the first variant, with the room types of its
\* select and numbers of beds in quarters, whole numbers among them.
PipeMaxQuarters == 120
RoomTypesSimple == {"ward", "icu_standard", "icu_high_flow", "theatre"}
BedTextsSimple == {NaN} \cup {fromRatio(k, 4) : k \in 0..PipeMaxQuarters}

InitPipe ==
    /\ history = <<EmptyDoc>>
    /\ historyStep = 0
    /\ items = <<>>
    /\ connections = <<>>
    /\ drawables = <<>>
    /\ dxfEntities = <<>>
    /\ activeLayer = "O2"
    /\ editMode = "PIPE"
    /\ cadTool = "NONE"
    /\ snapGrid = TRUE
    /\ selectedIds = <<>>
    /\ selectedConnectionId = null
    /\ drawPipeMode = FALSE
    /\ selectedStartId = null
    /\ tempDrawable = NoDrawable
    /\ isDrawing = FALSE
    /\ isPanning = FALSE
    /\ contextMenu = NoMenu
    /\ now = 0
    /\ keyDown = [drawables |-> <<>>, items |-> <<>>, connections |-> <<>>,
                  selectedIds |-> <<>>]
    /\ lastEvent = Event("mount", null, null, FALSE)
    /\ trail = <<EmptyDoc>>
    /\ undone = 0
    /\ redone = 0
    /\ pixelsPerMeter = 50
    /\ pipeLen = <<>>
    /\ gesture = NoGesture
    /\ beds = NaN
    /\ roomType = "icu_standard"
    /\ wheelCount = 0
    /\ stagePos = [x |-> Num(1, 0, 1), y |-> Num(1, 0, 1)]
    /\ stageScale = Num(1, 1, 1)
    /\ savedFile = NoFile
    /\ dxfScale = Num(1, 1, 1)
    /\ imageSrc = null
    /\ totalLen = [l \in GAS_LAYERS |-> <<>>]
    /\ bedCount = 0

NextPipe ==
    \/ \E value \in RoomTypesSimple : setRoomType(value) /\ UNCHANGED designVars
    \/ \E value \in BedTextsSimple : setBeds(value) /\ UNCHANGED designVars

SpecPipe == InitPipe /\ [][NextPipe]_vars

GasesSimple == {"oxygen", "air", "vacuum"}

\* The formulas ran: the beds input reads as a positive number.
sizedSimple == ~lessEq(orElse(parseFloat(beds), fromInt(0)), fromInt(0))

\* C40: for every flow the formulas produce, recommendPipe of the unrounded
\* flow is recommendPipe of the flow rounded up, so the pipe in the results
\* is the one the displayed flow selects.
PipeMatchesDisplayedFlow ==
    sizedSimple =>
        \A g \in GasesSimple :
            LET flow == flowsSimple(roomType, orElse(parseFloat(beds), fromInt(0)))[g]
            IN /\ recommendPipe(flow) = recommendPipe(MathCeil(flow))
               /\ dataSimple[g].flow = MathCeil(flow)
               /\ dataSimple[g].pipe = recommendPipe(dataSimple[g].flow)

\* A ward whose unrounded oxygen flow lies strictly between 39 and 40: it is
\* displayed as 40, with the 12mm pipe.
PipeMatchesWitness ==
    /\ sizedSimple
    /\ roomType = "ward"
    /\ flowsSimple(roomType, beds).oxygen.den # 1
    /\ dataSimple.oxygen.flow = fromInt(40)
    /\ dataSimple.oxygen.pipe = "12mm Copper"
====
